---- MODULE Spec2Model ----
(***************************************************************************)
(* Model of the valuation engine of dcf_model.py: class DCFModel.          *)
(*                                                                         *)
(* Numbers.  The program computes with Python floats; the model computes   *)
(* with exact rationals <<n, d>> (d > 0, lowest terms), so every formula   *)
(* below is about the real-number value of the code's expressions and not  *)
(* about IEEE rounding.  Python's None is the empty tuple <<>>, a Python   *)
(* dict is a function from its keys, a Python list is a sequence.          *)
(***************************************************************************)
EXTENDS Integers, Sequences, FiniteSets, TLC

VARIABLES
    company,              \* self.company
    historical,           \* self.historical
    assumptions,          \* self.assumptions
    esg_data,             \* self.esg_data
    calculation_details,  \* self.calculation_details (one dict, shared by reference)
    results,              \* self.results
    ret,                  \* outcome of the last method call: value returned or exception raised
    returned,             \* history: for each result handed to the caller, the inputs of the call,
                          \* the result as it was at return, and the result of a fresh instance
    ncalls,               \* number of method calls made on this instance
    runs,                 \* concurrent valuation runs on separate instances over the same
                          \* input records: each run's position, locals and outcome
    heap,                 \* the calculation_details dict objects of those instances, by identity
    cache,                \* caching_layer._CACHE: cache key -> stored result
    cache_timestamps,     \* caching_layer._CACHE_TIMESTAMPS: cache key -> time of storing
    now,                  \* datetime.utcnow(), in minutes
    threads               \* the threads calling wrapped functions and clear_cache: each
                          \* thread's position in the code, its locals and its last outcome

cache_vars == <<cache, cache_timestamps, now, threads>>

vars == <<company, historical, assumptions, esg_data, calculation_details,
          results, ret, returned, ncalls, runs, heap, cache_vars>>

(***************************************************************************)
(* Exact rational arithmetic                                               *)
(***************************************************************************)
None == <<>>

Abs(x) == IF x < 0 THEN -x ELSE x

RECURSIVE GCD(_, _)
GCD(a, b) == IF b = 0 THEN a ELSE GCD(b, a % b)

Norm(n, d) ==
    LET g == GCD(Abs(n), Abs(d))
        s == IF d < 0 THEN -1 ELSE 1
    IN  <<(s * n) \div g, (s * d) \div g>>

R(n, d) == Norm(n, d)
Zero == <<0, 1>>
One == <<1, 1>>

\* Each operation looks at its operands first, so that a chain of operations
\* is evaluated operand by operand and not inside one another.
RAdd(a, b) ==
    IF a[2] = b[2] THEN Norm(a[1] + b[1], a[2])
    ELSE LET g == GCD(a[2], b[2])
         IN  Norm(a[1] * (b[2] \div g) + b[1] * (a[2] \div g), (a[2] \div g) * b[2])

RNeg(a) == <<-a[1], a[2]>>

RSub(a, b) ==
    IF a[2] = b[2] THEN Norm(a[1] - b[1], a[2])
    ELSE LET g == GCD(a[2], b[2])
         IN  Norm(a[1] * (b[2] \div g) - b[1] * (a[2] \div g), (a[2] \div g) * b[2])

RMul(a, b) ==
    IF a[1] = 0 \/ b[1] = 0 THEN Zero
    ELSE LET g1 == GCD(Abs(a[1]), b[2])
             g2 == GCD(Abs(b[1]), a[2])
         IN  Norm((a[1] \div g1) * (b[1] \div g2), (a[2] \div g2) * (b[2] \div g1))

\* a / b for b # 0; the callers decide what a zero divisor does (ZeroDivisionError)
RDiv(a, b) ==
    IF b[1] > 0 THEN RMul(a, <<b[2], b[1]>>) ELSE RMul(a, <<-b[2], -b[1]>>)

\* Three-way comparison by continued fractions (no products, so no overflow)
RECURSIVE RCmp(_, _)
RCmp(a, b) ==
    IF a = b THEN 0
    ELSE LET qa == a[1] \div a[2]
             qb == b[1] \div b[2]
             ra == a[1] % a[2]
             rb == b[1] % b[2]
         IN  IF qa < qb THEN -1
             ELSE IF qa > qb THEN 1
             ELSE IF ra = 0 /\ rb = 0 THEN 0
             ELSE IF ra = 0 THEN -1
             ELSE IF rb = 0 THEN 1
             ELSE RCmp(<<b[2], rb>>, <<a[2], ra>>)

RLt(a, b) == RCmp(a, b) < 0
RLe(a, b) == RCmp(a, b) <= 0
RGt(a, b) == RCmp(a, b) > 0
RGe(a, b) == RCmp(a, b) >= 0
RMax(a, b) == IF RGe(a, b) THEN a ELSE b

RECURSIVE RPow(_, _)
RPow(a, k) == IF k = 0 THEN One ELSE RMul(a, RPow(a, k - 1))

RECURSIVE RSum(_)
RSum(s) == IF s = <<>> THEN Zero ELSE RAdd(s[1], RSum(Tail(s)))

\* Python slice s[-k:] (k >= 0): the last k items, and the whole list when k = 0
LastK(s, k) ==
    IF k = 0 \/ k >= Len(s) THEN s ELSE SubSeq(s, Len(s) - k + 1, Len(s))

Min2(a, b) == IF a <= b THEN a ELSE b

\* min(4, len(fcf)): the trailing-twelve-month window, in quarters
TtmWindow == 4

\* d[k] = v on a dict
SetKey(d, k, v) == [x \in (DOMAIN d) \cup {k} |-> IF x = k THEN v ELSE d[x]]
EmptyDict == <<>>
HasKey(d, k) == k \in DOMAIN d

(***************************************************************************)
(* DCFModel.calculate_wacc                                                 *)
(***************************************************************************)
\* the condition of the ESG branch
esg_tilt_active(a, e) ==
    /\ a.esg_adjustment_enabled
    /\ e.total_esg # None
    /\ RGt(a.esg_threshold_bad, a.esg_threshold_good)

\* faulty variant of esg_tilt: the position is taken over bad instead of bad - good
esg_tilt_misplaced(a, total_esg) ==
    LET strength == RDiv(a.esg_strength_bps, R(10000, 1))
        esg_good == a.esg_threshold_good
        esg_bad  == a.esg_threshold_bad
    IN  IF RLe(total_esg, esg_good) THEN RNeg(strength)
        ELSE IF RGe(total_esg, esg_bad) THEN strength
        ELSE LET position == RDiv(RSub(total_esg, esg_good), esg_bad)
             IN  RAdd(RNeg(strength), RMul(RMul(R(2, 1), strength), position))

\* the piecewise-linear adjustment computed inside the ESG branch
esg_tilt(a, total_esg) ==
    LET strength == RDiv(a.esg_strength_bps, R(10000, 1))
        esg_good == a.esg_threshold_good
        esg_bad  == a.esg_threshold_bad
    IN  IF RLe(total_esg, esg_good) THEN RNeg(strength)
        ELSE IF RGe(total_esg, esg_bad) THEN strength
        ELSE LET position == RDiv(RSub(total_esg, esg_good), RSub(esg_bad, esg_good))
             IN  RAdd(RNeg(strength), RMul(RMul(R(2, 1), strength), position))

esg_adjustment(a, e) ==
    IF esg_tilt_active(a, e) THEN esg_tilt(a, e.total_esg) ELSE Zero

capm_cost_of_equity(a) ==
    RAdd(a.risk_free_rate, RMul(a.beta, a.market_risk_premium))

\* ke_after_esg; cost_of_equity is assigned the same value in both branches
ke_after_esg(a, e) ==
    IF esg_tilt_active(a, e)
    THEN RMax(RMax(RAdd(capm_cost_of_equity(a), esg_adjustment(a, e)), a.risk_free_rate), Zero)
    ELSE capm_cost_of_equity(a)

market_cap(c) == RMul(c.shares_outstanding, c.current_stock_price)
net_debt(c) == RSub(c.total_debt, c.cash)
market_enterprise_value(c) == RAdd(market_cap(c), net_debt(c))

equity_weight(c) ==
    IF RGt(market_enterprise_value(c), Zero)
    THEN RDiv(market_cap(c), market_enterprise_value(c)) ELSE One

\* faulty variant of debt_weight: total debt instead of net debt
debt_weight_gross(c) ==
    IF RGt(market_enterprise_value(c), Zero)
    THEN RDiv(c.total_debt, market_enterprise_value(c)) ELSE Zero

debt_weight(c) ==
    IF RGt(market_enterprise_value(c), Zero)
    THEN RDiv(net_debt(c), market_enterprise_value(c)) ELSE Zero

after_tax_cost_debt(a) == RMul(a.cost_of_debt, RSub(One, a.tax_rate))

\* the record calculate_wacc returns
calculate_wacc(c, a, e) ==
    [ wacc                |-> RAdd(RMul(equity_weight(c), ke_after_esg(a, e)),
                                   RMul(debt_weight(c), after_tax_cost_debt(a))),
      cost_of_equity      |-> ke_after_esg(a, e),
      ke_before_esg       |-> capm_cost_of_equity(a),
      ke_after_esg        |-> ke_after_esg(a, e),
      after_tax_cost_debt |-> after_tax_cost_debt(a),
      equity_weight       |-> equity_weight(c),
      debt_weight         |-> debt_weight(c),
      market_cap          |-> market_cap(c),
      net_debt            |-> net_debt(c),
      enterprise_value    |-> market_enterprise_value(c) ]

\* calculation_details after calculate_wacc (the constant 'formula' and
\* 'explanation' strings of the entries are left out)
wacc_details(det, c, a, e) ==
    LET w == calculate_wacc(c, a, e)
        d1 == SetKey(det, "esg_adjustment",
                [ score        |-> e.total_esg,
                  enabled      |-> a.esg_adjustment_enabled,
                  thresholds   |-> [good |-> a.esg_threshold_good, bad |-> a.esg_threshold_bad],
                  strength_bps |-> a.esg_strength_bps,
                  ke_before    |-> w.ke_before_esg,
                  ke_after     |-> w.ke_after_esg,
                  adjustment   |-> esg_adjustment(a, e) ])
    IN  SetKey(d1, "wacc",
            [ components |->
                [ risk_free_rate      |-> a.risk_free_rate,
                  beta                |-> a.beta,
                  market_risk_premium |-> a.market_risk_premium,
                  cost_of_equity      |-> w.cost_of_equity,
                  cost_of_debt        |-> a.cost_of_debt,
                  tax_rate            |-> a.tax_rate,
                  after_tax_cost_debt |-> w.after_tax_cost_debt,
                  market_cap          |-> w.market_cap,
                  total_debt          |-> c.total_debt,
                  cash                |-> c.cash,
                  net_debt            |-> w.net_debt,
                  enterprise_value    |-> w.enterprise_value,
                  equity_weight       |-> w.equity_weight,
                  debt_weight         |-> w.debt_weight ] ])

(***************************************************************************)
(* DCFModel.calculate_historical_metrics                                   *)
(***************************************************************************)
\* ocf[i] + capex[i] raises IndexError as soon as capex is shorter than ocf
historical_raises(h) == Len(h.capex) < Len(h.operating_cash_flow)

quarterly_fcf(h) ==
    [i \in 1..Len(h.operating_cash_flow) |->
        RAdd(h.operating_cash_flow[i], h.capex[i])]

ttm_length(h) == Min2(TtmWindow, Len(quarterly_fcf(h)))

\* sum(xs[-ttm_length:]) if xs else 0
ttm_sum(xs, n) == IF xs # <<>> THEN RSum(LastK(xs, n)) ELSE Zero

\* the record calculate_historical_metrics returns (when it does not raise)
calculate_historical_metrics(h) ==
    LET fcf == quarterly_fcf(h)
        n == ttm_length(h)
        ttm_fcf == ttm_sum(fcf, n)
    IN  [ quarterly_fcf     |-> fcf,
          avg_quarterly_fcf |-> IF n > 0 THEN RDiv(ttm_fcf, R(n, 1)) ELSE Zero,
          ttm_fcf           |-> ttm_fcf,
          ttm_operating_cf  |-> ttm_sum(h.operating_cash_flow, n),
          ttm_capex         |-> ttm_sum(h.capex, n),
          ttm_net_income    |-> ttm_sum(h.net_income, n) ]

historical_details(det, h) ==
    LET m == calculate_historical_metrics(h)
    IN  SetKey(det, "fcf",
            [ components |-> [ ttm_operating_cf |-> m.ttm_operating_cf,
                               ttm_capex        |-> m.ttm_capex,
                               ttm_fcf          |-> m.ttm_fcf ] ])


(***************************************************************************)
(* DCFModel.project_cash_flows                                             *)
(***************************************************************************)
\* faulty variant of growth_for_year: past the end of the list the default 0.03
\* is used instead of the last rate
growth_for_year_default(growth_rates, year) ==
    IF year < Len(growth_rates) THEN growth_rates[year + 1]
    ELSE R(3, 100)

\* the growth rate of loop index year (0-based)
growth_for_year(growth_rates, year) ==
    IF year < Len(growth_rates) THEN growth_rates[year + 1]
    ELSE IF growth_rates # <<>> THEN growth_rates[Len(growth_rates)]
    ELSE R(3, 100)

RECURSIVE project_years(_, _, _)
project_years(a, base_fcf, n) ==
    IF n <= 0 THEN <<>>
    ELSE LET before == project_years(a, base_fcf, n - 1)
             growth == growth_for_year(a.revenue_growth_rates, n - 1)
             prev == IF n = 1 THEN base_fcf ELSE before[n - 1]
         IN  Append(before, RMul(prev, RAdd(One, growth)))

project_cash_flows(a, base_fcf) == project_years(a, base_fcf, a.forecast_years)

(***************************************************************************)
(* DCFModel.apply_stress_scenarios                                         *)
(***************************************************************************)
stress_multiplier(a) ==
    RSub(RSub(One, a.supply_chain_revenue_hit_pct), a.supply_chain_cogs_increase_pct)

\* the supply-chain block: years 1-2 of the copy are scaled
supply_chain_shock(a, fcf) ==
    [i \in 1..Len(fcf) |->
        IF i <= Min2(2, Len(fcf)) THEN RMul(fcf[i], stress_multiplier(a)) ELSE fcf[i]]

\* faulty variant of carbon_cost_series: the cost is taken from the series
\* after the supply-chain shock
carbon_cost_series_shocked(a, projected_fcf) ==
    [i \in 1..Len(projected_fcf) |->
        RMul(RMul(supply_chain_shock(a, projected_fcf)[i], a.carbon_intensity),
             a.carbon_tax_rate)]

\* carbon cost of each year, from the base (unshocked) series
carbon_cost_series(a, projected_fcf) ==
    [i \in 1..Len(projected_fcf) |->
        RMul(RMul(projected_fcf[i], a.carbon_intensity), a.carbon_tax_rate)]

\* the carbon-tax block: the cost is subtracted from the (possibly shocked) copy
carbon_tax(a, projected_fcf, fcf) ==
    [i \in 1..Len(fcf) |-> RSub(fcf[i], carbon_cost_series(a, projected_fcf)[i])]

\* faulty variant of apply_stress_scenarios: the overlays follow their own
\* flags and stress_enabled is not consulted
apply_stress_scenarios_ungated(a, projected_fcf) ==
    LET zeros == [i \in 1..Len(projected_fcf) |-> Zero]
        afterShock == IF a.stress_supply_chain
                      THEN supply_chain_shock(a, projected_fcf) ELSE projected_fcf
    IN  [ stressed_fcf |-> IF a.stress_carbon_tax
                           THEN carbon_tax(a, projected_fcf, afterShock) ELSE afterShock,
          carbon_costs |-> IF a.stress_carbon_tax
                           THEN carbon_cost_series(a, projected_fcf) ELSE zeros,
          notes |-> (IF a.stress_supply_chain
                     THEN <<"Supply chain shock applied to years 1-2.">> ELSE <<>>)
                    \o (IF a.stress_carbon_tax
                        THEN <<"Carbon tax uses FCF as revenue proxy for simplicity.">>
                        ELSE <<>>) ]

\* faulty variant of apply_stress_scenarios: the supply-chain shock is applied
\* whenever stress is enabled, whatever stress_supply_chain says
apply_stress_scenarios_unflagged(a, projected_fcf) ==
    LET zeros == [i \in 1..Len(projected_fcf) |-> Zero]
        afterShock == supply_chain_shock(a, projected_fcf)
    IN  IF ~a.stress_enabled
        THEN [stressed_fcf |-> projected_fcf, carbon_costs |-> zeros, notes |-> <<>>]
        ELSE [ stressed_fcf |-> IF a.stress_carbon_tax
                                THEN carbon_tax(a, projected_fcf, afterShock) ELSE afterShock,
               carbon_costs |-> IF a.stress_carbon_tax
                                THEN carbon_cost_series(a, projected_fcf) ELSE zeros,
               notes |-> <<>> ]

\* the triple apply_stress_scenarios returns
apply_stress_scenarios(a, projected_fcf) ==
    LET zeros == [i \in 1..Len(projected_fcf) |-> Zero]
        afterShock == IF a.stress_supply_chain
                      THEN supply_chain_shock(a, projected_fcf) ELSE projected_fcf
    IN  IF ~a.stress_enabled
        THEN [stressed_fcf |-> projected_fcf, carbon_costs |-> zeros, notes |-> <<>>]
        ELSE [ stressed_fcf |-> IF a.stress_carbon_tax
                                THEN carbon_tax(a, projected_fcf, afterShock) ELSE afterShock,
               carbon_costs |-> IF a.stress_carbon_tax
                                THEN carbon_cost_series(a, projected_fcf) ELSE zeros,
               notes |-> (IF a.stress_supply_chain
                          THEN <<"Supply chain shock applied to years 1-2.">> ELSE <<>>)
                         \o (IF a.stress_carbon_tax
                             THEN <<"Carbon tax uses FCF as revenue proxy for simplicity.">>
                             ELSE <<>>) ]

\* faulty variant of argument_after_stress: no copy is taken, the overlays are
\* written into the caller's list
argument_after_stress_inplace(a, projected_fcf) ==
    apply_stress_scenarios(a, projected_fcf).stressed_fcf

\* the caller's projected_fcf list after apply_stress_scenarios returned: the
\* method works on list(projected_fcf), so the list handed in is not written
argument_after_stress(a, projected_fcf) == projected_fcf

(***************************************************************************)
(* DCFModel.calculate_terminal_value                                       *)
(***************************************************************************)
\* faulty variant of effective_growth: "if wacc < g"
effective_growth_strict(a, wacc) ==
    IF RLt(wacc, a.perpetual_growth_rate) THEN RMul(wacc, R(1, 2))
    ELSE a.perpetual_growth_rate

\* g after the "if wacc <= g" policy
effective_growth(a, wacc) ==
    IF RLe(wacc, a.perpetual_growth_rate) THEN RMul(wacc, R(1, 2))
    ELSE a.perpetual_growth_rate

\* the division by (wacc - g) raises ZeroDivisionError
terminal_raises(a, wacc) == RSub(wacc, effective_growth(a, wacc)) = Zero

calculate_terminal_value(a, final_fcf, wacc) ==
    LET g == effective_growth(a, wacc)
    IN  RDiv(RMul(final_fcf, RAdd(One, g)), RSub(wacc, g))

\* faulty variant of terminal_details: the assumption is recorded, not the rate used
terminal_details_stated(det, a, final_fcf, wacc) ==
    SetKey(det, "terminal_value",
        [ components |-> [ final_fcf      |-> final_fcf,
                           growth_rate    |-> a.perpetual_growth_rate,
                           wacc           |-> wacc,
                           terminal_value |-> calculate_terminal_value(a, final_fcf, wacc) ] ])

\* faulty variant of terminal_details: an entry already present is kept
terminal_details_keep(det, a, final_fcf, wacc) ==
    IF HasKey(det, "terminal_value") THEN det
    ELSE SetKey(det, "terminal_value",
            [ components |-> [ final_fcf      |-> final_fcf,
                               growth_rate    |-> effective_growth(a, wacc),
                               wacc           |-> wacc,
                               terminal_value |-> calculate_terminal_value(a, final_fcf, wacc) ] ])

terminal_details(det, a, final_fcf, wacc) ==
    SetKey(det, "terminal_value",
        [ components |-> [ final_fcf      |-> final_fcf,
                           growth_rate    |-> effective_growth(a, wacc),
                           wacc           |-> wacc,
                           terminal_value |-> calculate_terminal_value(a, final_fcf, wacc) ] ])

(***************************************************************************)
(* Discounting                                                             *)
(***************************************************************************)
\* faulty variant of discount: compounding instead of discounting
discount_compounding(x, wacc, year) == RMul(x, RPow(RAdd(One, wacc), year))

\* fcf / ((1 + wacc) ** year)
discount(x, wacc, year) == RDiv(x, RPow(RAdd(One, wacc), year))

\* (1 + wacc) ** year is 0 exactly when wacc = -1: the division raises
discount_raises(wacc) == RAdd(One, wacc) = Zero

present_values(fcf, wacc) == [y \in 1..Len(fcf) |-> discount(fcf[y], wacc, y)]

(***************************************************************************)
(* DCFModel._calc_intrinsic_for_sensitivity, calculate_sensitivity_matrix  *)
(***************************************************************************)
\* faulty variant of calc_intrinsic_for_sensitivity: when wacc <= growth the
\* cell is valued with growth wacc * 0.5, as calculate_terminal_value does
calc_intrinsic_unified(c, projected_fcf, wacc, growth) ==
    IF projected_fcf = <<>> \/ RLe(wacc, Zero) THEN None
    ELSE IF RLe(c.shares_outstanding, Zero) THEN None
    ELSE LET g == IF RLe(wacc, growth) THEN RMul(wacc, R(1, 2)) ELSE growth
             pv_fcf == RSum(present_values(projected_fcf, wacc))
             terminal_value == RDiv(RMul(projected_fcf[Len(projected_fcf)], RAdd(One, g)),
                                    RSub(wacc, g))
             pv_terminal == discount(terminal_value, wacc, Len(projected_fcf))
             enterprise_value == RAdd(pv_fcf, pv_terminal)
             equity_value == RAdd(RSub(enterprise_value, c.total_debt), c.cash)
         IN  RDiv(equity_value, c.shares_outstanding)

\* faulty variant of calc_intrinsic_for_sensitivity: a cell with wacc <= growth
\* is valued with the halved growth wacc * 0.5 of calculate_terminal_value
calc_intrinsic_halved(c, projected_fcf, wacc, growth) ==
    IF projected_fcf = <<>> \/ RLe(wacc, Zero) THEN None
    ELSE IF RLe(c.shares_outstanding, Zero) THEN None
    ELSE LET g == IF RLe(wacc, growth) THEN RMul(wacc, R(1, 2)) ELSE growth
             pv_fcf == RSum(present_values(projected_fcf, wacc))
             terminal_value == RDiv(RMul(projected_fcf[Len(projected_fcf)], RAdd(One, g)),
                                    RSub(wacc, g))
             pv_terminal == discount(terminal_value, wacc, Len(projected_fcf))
             equity_value == RAdd(RSub(RAdd(pv_fcf, pv_terminal), c.total_debt), c.cash)
         IN  RDiv(equity_value, c.shares_outstanding)

calc_intrinsic_for_sensitivity(c, projected_fcf, wacc, growth) ==
    IF projected_fcf = <<>> \/ RLe(wacc, Zero) \/ RLe(wacc, growth) THEN None
    ELSE IF RLe(c.shares_outstanding, Zero) THEN None
    ELSE LET pv_fcf == RSum(present_values(projected_fcf, wacc))
             terminal_value == RDiv(RMul(projected_fcf[Len(projected_fcf)], RAdd(One, growth)),
                                    RSub(wacc, growth))
             pv_terminal == discount(terminal_value, wacc, Len(projected_fcf))
             enterprise_value == RAdd(pv_fcf, pv_terminal)
             equity_value == RAdd(RSub(enterprise_value, c.total_debt), c.cash)
         IN  RDiv(equity_value, c.shares_outstanding)

\* faulty variant of wacc_range: the outer points are 0.8 and 1.2 of the base
wacc_range_narrow(base_wacc) ==
    << RMul(base_wacc, R(4, 5)), RMul(base_wacc, R(9, 10)), base_wacc,
       RMul(base_wacc, R(11, 10)), RMul(base_wacc, R(6, 5)) >>

wacc_range(base_wacc) ==
    << RMul(base_wacc, R(3, 4)), RMul(base_wacc, R(9, 10)), base_wacc,
       RMul(base_wacc, R(11, 10)), RMul(base_wacc, R(5, 4)) >>

growth_range(base_growth) ==
    << RSub(base_growth, R(1, 100)), RSub(base_growth, R(1, 200)), base_growth,
       RAdd(base_growth, R(1, 200)), RAdd(base_growth, R(1, 100)) >>

\* the cells of a matrix that are not None, row by row
RECURSIVE valid_values(_)
valid_values(matrix) ==
    IF matrix = <<>> THEN <<>>
    ELSE SelectSeq(matrix[1], LAMBDA v : v # None) \o valid_values(Tail(matrix))

calculate_sensitivity_matrix(c, a, projected_fcf, base_wacc) ==
    LET \* min(valid_values), max(valid_values) of a non-empty list
        RMaxOf(s) ==
            CHOOSE x \in {s[i] : i \in 1..Len(s)} : \A j \in 1..Len(s) : RGe(x, s[j])
        RMinOf(s) ==
            CHOOSE x \in {s[i] : i \in 1..Len(s)} : \A j \in 1..Len(s) : RLe(x, s[j])
    IN
    IF projected_fcf = <<>> \/ RLe(base_wacc, Zero) THEN EmptyDict
    ELSE LET base_growth == a.perpetual_growth_rate
             ws == wacc_range(base_wacc)
             gs == growth_range(base_growth)
             matrix == [i \in 1..5 |-> [j \in 1..5 |->
                          calc_intrinsic_for_sensitivity(c, projected_fcf, ws[i], gs[j])]]
             valid == valid_values(matrix)
         IN  [ wacc_range   |-> ws,
               growth_range |-> gs,
               matrix       |-> matrix,
               base_wacc    |-> base_wacc,
               base_growth  |-> base_growth,
               min_value    |-> IF valid # <<>> THEN RMinOf(valid) ELSE None,
               max_value    |-> IF valid # <<>> THEN RMaxOf(valid) ELSE None ]

(***************************************************************************)
(* DCFModel.calculate_irr                                                  *)
(***************************************************************************)
\* The value (x ** (1 / years)) - 1 is kept symbolically as the pair
\* (radicand x, degree years).  Python returns a float when x >= 0 or the
\* exponent 1/years is 1.0, and a complex number when x < 0 and years > 1
\* (no exception is raised, so the except branch is not taken).
calculate_irr(cash_flows, terminal_value, initial_investment) ==
    IF cash_flows = <<>> \/ RLe(initial_investment, Zero)
    THEN [kind |-> "zero", radicand |-> Zero, degree |-> 0]
    ELSE LET x == RDiv(RAdd(RSum(cash_flows), terminal_value), initial_investment)
             years == Len(cash_flows)
         IN  [ kind     |-> IF RGe(x, Zero) \/ years = 1 THEN "real" ELSE "complex",
               radicand |-> x,
               degree   |-> years ]

(***************************************************************************)
(* DCFModel.calculate_dcf_valuation                                        *)
(***************************************************************************)
\* faulty variant of per_share: the fallback is the undivided value
per_share_unguarded(c, equity_value) ==
    IF RGt(c.shares_outstanding, Zero) THEN RDiv(equity_value, c.shares_outstanding)
    ELSE equity_value

\* x / shares_outstanding if shares_outstanding > 0 else 0
per_share(c, equity_value) ==
    IF RGt(c.shares_outstanding, Zero) THEN RDiv(equity_value, c.shares_outstanding) ELSE Zero

upside_pct(c, intrinsic) ==
    IF RGt(c.current_stock_price, Zero)
    THEN RMul(RDiv(RSub(intrinsic, c.current_stock_price), c.current_stock_price), R(100, 1))
    ELSE Zero

ev_fcf_multiple(wacc_results, hist_metrics) ==
    IF RGt(hist_metrics.ttm_fcf, Zero)
    THEN RDiv(wacc_results.enterprise_value, hist_metrics.ttm_fcf) ELSE Zero

\* delta_pct stays None unless stress is enabled, a stressed value exists and the base is not 0
stress_delta_pct(a, stressed_intrinsic, intrinsic) ==
    IF a.stress_enabled /\ stressed_intrinsic # None /\ intrinsic # Zero
    THEN RMul(RDiv(RSub(stressed_intrinsic, intrinsic), intrinsic), R(100, 1))
    ELSE None

\* equity value of a series: sum of PVs + PV of the terminal value - debt + cash
equity_value_of(c, a, fcf, wacc) ==
    LET tv == calculate_terminal_value(a, fcf[Len(fcf)], wacc)
    IN  RAdd(RSub(RAdd(RSum(present_values(fcf, wacc)), discount(tv, wacc, Len(fcf))),
                  c.total_debt), c.cash)

Raised(exception, step, det) ==
    [status |-> exception, step |-> step, value |-> EmptyDict, details |-> det]

\* The body of calculate_dcf_valuation is modelled in the order of its
\* statements, each stage handing the locals computed so far to the next.

\* the base valuation: PVs, terminal value, enterprise and equity value, per-share
\* value, IRR (the terminal-value branch for an empty projection gives 0, 0)
base_valuation(c, a, wacc_results, projected_fcf) ==
    LET wacc == wacc_results.wacc
        n == Len(projected_fcf)
        pv_fcf == present_values(projected_fcf, wacc)
        terminal_value == IF n > 0 THEN calculate_terminal_value(a, projected_fcf[n], wacc)
                          ELSE Zero
        pv_terminal_value == IF n > 0 THEN discount(terminal_value, wacc, n) ELSE Zero
        enterprise_value_dcf == RAdd(RSum(pv_fcf), pv_terminal_value)
        equity_value == RAdd(RSub(enterprise_value_dcf, c.total_debt), c.cash)
    IN  [ pv_fcf                    |-> pv_fcf,
          terminal_value            |-> terminal_value,
          pv_terminal_value         |-> pv_terminal_value,
          enterprise_value_dcf      |-> enterprise_value_dcf,
          equity_value              |-> equity_value,
          intrinsic_value_per_share |-> per_share(c, equity_value),
          irr |-> calculate_irr(projected_fcf, terminal_value, wacc_results.enterprise_value) ]

\* the stress_test dict, the sensitivity grid and the results dict
valuation_results(c, a, det, wacc_results, hist_metrics, projected_fcf, base, stress, stressed_intrinsic) ==
    [ status  |-> "returned",
      step    |-> "return",
      details |-> det,
      value   |->
        [ wacc_results              |-> wacc_results,
          historical_metrics        |-> hist_metrics,
          projected_fcf             |-> projected_fcf,
          pv_fcf                    |-> base.pv_fcf,
          terminal_value            |-> base.terminal_value,
          pv_terminal_value         |-> base.pv_terminal_value,
          enterprise_value_dcf      |-> base.enterprise_value_dcf,
          equity_value              |-> base.equity_value,
          intrinsic_value_per_share |-> base.intrinsic_value_per_share,
          current_market_value      |-> c.current_stock_price,
          upside_pct                |-> upside_pct(c, base.intrinsic_value_per_share),
          irr                       |-> base.irr,
          ev_fcf_multiple           |-> ev_fcf_multiple(wacc_results, hist_metrics),
          stress_test               |->
            [ enabled   |-> a.stress_enabled,
              scenarios |-> [ supply_chain_shock |-> a.stress_supply_chain,
                              carbon_tax |-> a.stress_carbon_tax ],
              base_intrinsic_value_per_share     |-> base.intrinsic_value_per_share,
              stressed_intrinsic_value_per_share |-> stressed_intrinsic,
              delta_pct |-> stress_delta_pct(a, stressed_intrinsic,
                                             base.intrinsic_value_per_share),
              base_projected_fcf     |-> projected_fcf,
              stressed_projected_fcf |-> stress.stressed_fcf,
              carbon_costs |-> IF a.stress_carbon_tax THEN stress.carbon_costs ELSE <<>>,
              notes        |-> stress.notes ],
          sensitivity |-> calculate_sensitivity_matrix(c, a, projected_fcf, wacc_results.wacc),
          calculation_details       |-> det ] ]

\* the stressed valuation, run when stress is enabled and the series is not
\* empty; its calculate_terminal_value call writes calculation_details again.
\* projected_fcf is the list as apply_stress_scenarios left it: it is what
\* stress_test, the sensitivity grid and results['projected_fcf'] are built from
stressed_valuation(c, a, det, wacc_results, hist_metrics, projected_fcf, base, stress) ==
    IF a.stress_enabled /\ stress.stressed_fcf # <<>>
    THEN valuation_results(c, a,
            terminal_details(det, a, stress.stressed_fcf[Len(stress.stressed_fcf)],
                             wacc_results.wacc),
            wacc_results, hist_metrics, projected_fcf, base, stress,
            per_share(c, equity_value_of(c, a, stress.stressed_fcf, wacc_results.wacc)))
    ELSE valuation_results(c, a, det, wacc_results, hist_metrics, projected_fcf, base, stress,
                           None)

\* discounting and terminal value of the projected series, or the
\* ZeroDivisionError of fcf / (1 + wacc) ** year or of the Gordon formula
valuation_of_projection(c, a, det, wacc_results, hist_metrics, projected_fcf) ==
    IF projected_fcf # <<>> /\ discount_raises(wacc_results.wacc)
    THEN Raised("ZeroDivisionError", "pv_fcf", det)
    ELSE IF projected_fcf # <<>> /\ terminal_raises(a, wacc_results.wacc)
    THEN Raised("ZeroDivisionError", "terminal_value", det)
    ELSE stressed_valuation(c, a,
            IF projected_fcf # <<>>
            THEN terminal_details(det, a, projected_fcf[Len(projected_fcf)], wacc_results.wacc)
            ELSE det,
            wacc_results, hist_metrics, argument_after_stress(a, projected_fcf),
            base_valuation(c, a, wacc_results, projected_fcf),
            apply_stress_scenarios(a, projected_fcf))

valuation_of_history(c, a, det, wacc_results, hist_metrics) ==
    valuation_of_projection(c, a, det, wacc_results, hist_metrics,
                            project_cash_flows(a, hist_metrics.ttm_fcf))

\* The whole of calculate_dcf_valuation on an instance whose calculation_details
\* is det: the exception raised or the results dict returned, and
\* calculation_details as the call leaves it.
calculate_dcf_valuation(c, h, a, e, det) ==
    IF historical_raises(h)
    THEN Raised("IndexError", "historical_metrics", wacc_details(det, c, a, e))
    ELSE valuation_of_history(c, a, historical_details(wacc_details(det, c, a, e), h),
                              calculate_wacc(c, a, e), calculate_historical_metrics(h))

(***************************************************************************)
(* Inputs.  The records below are the values the model draws a DCFModel's  *)
(* constructor arguments from.  Rates are multiples of 1/5 and 1/10 so     *)
(* that the exact fractions of the 5 x 5 sensitivity grid stay small.      *)
(***************************************************************************)
Company(shares, price, debt, cash) ==
    [ shares_outstanding  |-> R(shares, 1), current_stock_price |-> R(price, 1),
      total_debt          |-> R(debt, 1),   cash                |-> R(cash, 1) ]

CompanyHealthy  == Company(10, 10, 0, 0)     \* enterprise value 100, weights 1 and 0
CompanyNoShares == Company(0, 10, 50, 0)     \* shares 0, enterprise value 50
CompanyEmpty    == Company(0, 0, 0, 0)       \* enterprise value 0

\* (risk_free_rate, beta) pairs; market_risk_premium is 1/5 throughout
RateProfile(rf, beta) == [risk_free_rate |-> rf, beta |-> beta]

\* (enabled, strength_bps, good, bad) and the ESG score of the profile
EsgConfig(enabled, bps, good, bad) ==
    [ esg_adjustment_enabled |-> enabled, esg_strength_bps |-> R(bps, 1),
      esg_threshold_good |-> R(good, 1), esg_threshold_bad |-> R(bad, 1) ]
AllEsgScores == {None, R(10, 1), R(20, 1), R(25, 1), R(30, 1), R(40, 1), R(50, 1)}

StressConfig(enabled, supply, carbon) ==
    [stress_enabled |-> enabled, stress_supply_chain |-> supply, stress_carbon_tax |-> carbon]

Assumptions(rates, esg, stress, g, years, growth_rates) ==
    [ risk_free_rate               |-> rates.risk_free_rate,
      beta                         |-> rates.beta,
      market_risk_premium          |-> R(1, 5),
      cost_of_debt                 |-> R(2, 5),
      tax_rate                     |-> R(1, 2),
      perpetual_growth_rate        |-> g,
      revenue_growth_rates         |-> growth_rates,
      forecast_years               |-> years,
      esg_adjustment_enabled       |-> esg.esg_adjustment_enabled,
      esg_strength_bps             |-> esg.esg_strength_bps,
      esg_threshold_good           |-> esg.esg_threshold_good,
      esg_threshold_bad            |-> esg.esg_threshold_bad,
      stress_enabled               |-> stress.stress_enabled,
      stress_supply_chain          |-> stress.stress_supply_chain,
      stress_carbon_tax            |-> stress.stress_carbon_tax,
      supply_chain_revenue_hit_pct   |-> R(3, 20),
      supply_chain_cogs_increase_pct |-> R(1, 10),
      carbon_intensity             |-> R(1, 2),
      carbon_tax_rate              |-> R(1, 2) ]

\* a list of n amounts: `first`, then `rest` repeated
Series(n, first, rest) == [i \in 1..n |-> R(IF i = 1 THEN first ELSE rest, 1)]

Historical(ocf, capex, net_income) ==
    [operating_cash_flow |-> ocf, capex |-> capex, net_income |-> net_income]

HistPositive == Historical(Series(4, 3, 3), Series(4, -1, -1), Series(4, 1, 1))  \* TTM FCF 8
HistNegative == Historical(Series(4, 1, 1), Series(4, -2, -2), Series(4, -1, -1)) \* TTM FCF -4
HistEmpty    == Historical(<<>>, <<>>, <<>>)
HistNoCapex  == Historical(Series(4, 3, 3), <<>>, Series(4, 1, 1))                \* capex missing

DefaultRates  == RateProfile(R(1, 5), R(1, 1))
DefaultEsg    == EsgConfig(TRUE, 2000, 20, 40)
DefaultStress == StressConfig(FALSE, FALSE, FALSE)
DefaultGrowthRates == <<R(1, 2), Zero>>

(***************************************************************************)
(* The state machine: one DCFModel instance and the calls made on it       *)
(***************************************************************************)
\* bound on the number of method calls made on the instance
MaxCalls == 2

\* DCFModel.__init__
\* the cache module as the import leaves it, with no thread calling into it
CacheUnused ==
    /\ cache = EmptyDict
    /\ cache_timestamps = EmptyDict
    /\ now = 0
    /\ threads = <<>>

Constructed(c, h, a, e) ==
    /\ company = c
    /\ historical = h
    /\ assumptions = a
    /\ esg_data = e
    /\ results = EmptyDict
    /\ calculation_details = EmptyDict
    /\ ret = [op |-> "__init__", status |-> "returned"]
    /\ returned = <<>>
    /\ ncalls = 0
    /\ runs = <<>>
    /\ heap = <<>>
    /\ CacheUnused

Init ==
    LET Changed(i) == IF i = 1 THEN 0 ELSE 1
        MainYears     == <<2, 1>>
        MainHistory   == <<HistPositive, HistNegative, HistEmpty, HistNoCapex>>
        MainGrowth    == <<Zero, R(1, 5)>>
        MainStress    == <<StressConfig(FALSE, FALSE, FALSE), StressConfig(FALSE, TRUE, TRUE),
                           StressConfig(TRUE, FALSE, FALSE), StressConfig(TRUE, TRUE, TRUE)>>
        MainRates     == <<RateProfile(Zero, R(1, 1)), RateProfile(Zero, Zero), RateProfile(Zero, R(-5, 1))>>
        \* The inputs of the full engine: every combination of the values below in
        \* which at most two of the six inputs differ from the default (the first
        \* value of each list), so that every pair of conditions meets.
        MainCompanies == <<CompanyHealthy, CompanyNoShares, CompanyEmpty>>
    IN
    \E ci \in DOMAIN MainCompanies, ri \in DOMAIN MainRates, si \in DOMAIN MainStress,
       gi \in DOMAIN MainGrowth, hi \in DOMAIN MainHistory, yi \in DOMAIN MainYears :
        /\ Changed(ci) + Changed(ri) + Changed(si) + Changed(gi) + Changed(hi) + Changed(yi) <= 2
        /\ Constructed(MainCompanies[ci], MainHistory[hi],
                       Assumptions(MainRates[ri], DefaultEsg, MainStress[si], MainGrowth[gi],
                                   MainYears[yi], DefaultGrowthRates),
                       [total_esg |-> None])

\* self.results['calculation_details'] is self.calculation_details itself (one
\* dict object), so a write to calculation_details shows in self.results
aliased(res, det) ==
    IF DOMAIN res = {} THEN res ELSE [res EXCEPT !.calculation_details = det]

Inputs == [company |-> company, historical |-> historical,
           assumptions |-> assumptions, esg_data |-> esg_data]

CalculateWacc ==
    /\ ncalls < MaxCalls
    /\ calculation_details' = wacc_details(calculation_details, company, assumptions, esg_data)
    /\ results' = aliased(results, calculation_details')
    /\ ret' = [op |-> "calculate_wacc", status |-> "returned",
               value |-> calculate_wacc(company, assumptions, esg_data)]
    /\ ncalls' = ncalls + 1
    /\ UNCHANGED <<cache_vars, runs, heap, company, historical, assumptions, esg_data, returned>>

CalculateHistoricalMetrics ==
    /\ ncalls < MaxCalls
    /\ IF historical_raises(historical)
       THEN /\ ret' = [op |-> "calculate_historical_metrics", status |-> "IndexError"]
            /\ UNCHANGED <<calculation_details, results>>
       ELSE /\ calculation_details' = historical_details(calculation_details, historical)
            /\ results' = aliased(results, calculation_details')
            /\ ret' = [op |-> "calculate_historical_metrics", status |-> "returned",
                       value |-> calculate_historical_metrics(historical)]
    /\ ncalls' = ncalls + 1
    /\ UNCHANGED <<cache_vars, runs, heap, company, historical, assumptions, esg_data, returned>>

CalculateTerminalValue ==
    LET TerminalCallWacc == {R(-1, 5), Zero, R(1, 10), R(3, 10)}
        \* arguments of direct calls of calculate_terminal_value
        TerminalCallFcf  == {R(2, 1)}
    IN
    /\ ncalls < MaxCalls
    /\ \E final_fcf \in TerminalCallFcf, wacc \in TerminalCallWacc :
        IF terminal_raises(assumptions, wacc)
        THEN /\ ret' = [op |-> "calculate_terminal_value", status |-> "ZeroDivisionError",
                        final_fcf |-> final_fcf, wacc |-> wacc,
                        growth_rate |-> effective_growth(assumptions, wacc)]
             /\ UNCHANGED <<calculation_details, results>>
        ELSE /\ calculation_details' =
                    terminal_details(calculation_details, assumptions, final_fcf, wacc)
             /\ results' = aliased(results, calculation_details')
             /\ ret' = [op |-> "calculate_terminal_value", status |-> "returned",
                        final_fcf |-> final_fcf, wacc |-> wacc,
                        growth_rate |-> effective_growth(assumptions, wacc),
                        value |-> calculate_terminal_value(assumptions, final_fcf, wacc)]
    /\ ncalls' = ncalls + 1
    /\ UNCHANGED <<cache_vars, runs, heap, company, historical, assumptions, esg_data, returned>>

CalculateDcfValuation ==
    LET \* what calculate_dcf_valuation returns on a second DCFModel constructed from the
        \* same four inputs (__init__ starts it with calculation_details = {})
        FreshInstanceResult(c, h, a, e) == calculate_dcf_valuation(c, h, a, e, EmptyDict).value
    IN
    /\ ncalls < MaxCalls
    /\ \E out \in {calculate_dcf_valuation(company, historical, assumptions, esg_data,
                                            calculation_details)} :
           /\ calculation_details' = out.details
           /\ IF out.status = "returned"
              THEN /\ results' = out.value
                   /\ returned' = Append(returned,
                          [inputs |-> Inputs, result |-> out.value,
                           fresh |-> FreshInstanceResult(company, historical,
                                                         assumptions, esg_data)])
              ELSE /\ results' = aliased(results, out.details)
                   /\ UNCHANGED returned
           /\ ret' = [op |-> "calculate_dcf_valuation", status |-> out.status,
                      step |-> out.step, value |-> out.value]
    /\ ncalls' = ncalls + 1
    /\ UNCHANGED <<cache_vars, runs, heap, company, historical, assumptions, esg_data>>

\* the value now held by the i-th result that calculate_dcf_valuation returned:
\* its 'calculation_details' entry is the model's one calculation_details dict,
\* every other entry is a value or a list built for that call alone
result_now(i) == aliased(returned[i].result, calculation_details)

Next ==
    \/ CalculateTerminalValue
    \/ CalculateDcfValuation

Spec == Init /\ [][Next]_vars

(***************************************************************************)
(* Specifications of the single methods, over wider inputs                 *)
(***************************************************************************)

\* calculate_wacc over every company, rate profile, ESG configuration and score
InitWacc ==
    LET AllEsgConfigs ==
            { EsgConfig(TRUE, 2000, 20, 40), EsgConfig(FALSE, 2000, 20, 40),
              EsgConfig(TRUE, 2000, 40, 20), EsgConfig(TRUE, 2000, 20, 20),
              EsgConfig(TRUE, 0, 20, 40), EsgConfig(TRUE, 50, 20, 40) }
        AllRates ==
            { RateProfile(rf, R(b, 1)) : rf \in {Zero, R(1, 5)}, b \in {-5, -1, 0, 1} }
        AllCompanies ==
            LET CompanyNoPrice  == Company(10, 0, 0, 20)     \* price 0, enterprise value -20
            IN
            LET CompanyNetCash  == Company(10, 10, 0, 50)    \* net debt -50, weights 2 and -1
            IN
            LET CompanyLevered  == Company(10, 10, 100, 0)   \* enterprise value 200, weights 1/2 and 1/2
            IN
            {CompanyHealthy, CompanyLevered, CompanyNetCash, CompanyNoShares, CompanyEmpty, CompanyNoPrice}
    IN
    \E c \in AllCompanies, rates \in AllRates, esg \in AllEsgConfigs, score \in AllEsgScores :
        Constructed(c, HistPositive,
                    Assumptions(rates, esg, DefaultStress, Zero, 2, DefaultGrowthRates),
                    [total_esg |-> score])

SpecWacc == InitWacc /\ [][CalculateWacc]_vars

\* bound on the number of quarters of a historical list
MaxQuarters == 5

\* calculate_historical_metrics over lists of every length up to MaxQuarters,
\* the three lists of a record not necessarily of the same length
InitHist ==
    LET DefaultAssumptions ==
            Assumptions(DefaultRates, DefaultEsg, DefaultStress, Zero, 2, DefaultGrowthRates)
    IN
    \E n1 \in 0..MaxQuarters, n2 \in 0..MaxQuarters, n3 \in 0..MaxQuarters,
       o \in {<<9, 1>>, <<1, 1>>}, x \in {<<-5, -1>>, <<0, -2>>} :
        Constructed(CompanyHealthy,
                    Historical(Series(n1, o[1], o[2]), Series(n2, x[1], x[2]), Series(n3, 2, 1)),
                    DefaultAssumptions, [total_esg |-> None])

SpecHist == InitHist /\ [][CalculateHistoricalMetrics]_vars

InitTerminal ==
    LET \* calculate_terminal_value over perpetual growth rates below, at and above the
        \* discount rates of TerminalCallWacc
        TerminalGrowthRates ==
            {R(-1, 5), R(-1, 10), R(-1, 20), Zero, R(1, 40), R(1, 20), R(1, 10), R(1, 5),
             R(3, 10), R(1, 2)}
    IN
    \E g \in TerminalGrowthRates :
        Constructed(CompanyHealthy, HistPositive,
                    Assumptions(DefaultRates, DefaultEsg, DefaultStress, g, 2, DefaultGrowthRates),
                    [total_esg |-> None])

SpecTerminal == InitTerminal /\ [][CalculateTerminalValue]_vars

(***************************************************************************)
(* project_cash_flows called directly                                      *)
(***************************************************************************)
\* bound on forecast_years in the projection specification
MaxYears == 3

ProjectCashFlows ==
    LET \* baselines (TTM FCF) handed to project_cash_flows
        ProjectionBaselines == {R(80, 1), R(8, 1), R(1, 2), Zero, R(-4, 1)}
    IN
    /\ ncalls < MaxCalls
    /\ \E base_fcf \in ProjectionBaselines :
           ret' = [op |-> "project_cash_flows", status |-> "returned", base_fcf |-> base_fcf,
                   value |-> project_cash_flows(assumptions, base_fcf)]
    /\ ncalls' = ncalls + 1
    /\ UNCHANGED <<cache_vars, runs, heap, company, historical, assumptions, esg_data, calculation_details,
                   results, returned>>

InitProject ==
    LET \* revenue_growth_rates: empty, shorter than, as long as and longer than the horizon
        ProjectionGrowthRates ==
            { <<>>, <<R(1, 2)>>, <<R(3, 50), R(11, 200)>>, <<R(1, 2), Zero, R(-1, 2), R(1, 10)>> }
    IN
    \E years \in 1..MaxYears, rates \in ProjectionGrowthRates :
        Constructed(CompanyHealthy, HistPositive,
                    Assumptions(DefaultRates, DefaultEsg, DefaultStress, Zero, years, rates),
                    [total_esg |-> None])

SpecProject == InitProject /\ [][ProjectCashFlows]_vars

(***************************************************************************)
(* apply_stress_scenarios called directly                                  *)
(***************************************************************************)

ApplyStressScenarios ==
    LET \* projected series handed to apply_stress_scenarios: empty, one to three years
        StressCallSeries ==
            { <<>>, <<R(8, 1)>>, <<R(12, 1), R(12, 1)>>, <<R(-6, 1), R(-6, 1)>>,
              <<R(12, 1), R(6, 1), R(3, 1)>> }
    IN
    /\ ncalls < MaxCalls
    /\ \E projected_fcf \in StressCallSeries :
           ret' = [op |-> "apply_stress_scenarios", status |-> "returned",
                   projected_fcf |-> projected_fcf,
                   projected_fcf_after |-> argument_after_stress(assumptions, projected_fcf),
                   value |-> apply_stress_scenarios(assumptions, projected_fcf)]
    /\ ncalls' = ncalls + 1
    /\ UNCHANGED <<cache_vars, runs, heap, company, historical, assumptions, esg_data, calculation_details,
                   results, returned>>

InitStress ==
    LET \* (supply_chain_revenue_hit_pct, carbon_tax_rate) pairs
        StressParameters == { <<R(3, 20), R(1, 2)>>, <<R(3, 20), Zero>>, <<R(2, 5), R(1, 2)>>,
                              <<Zero, R(1, 100)>> }
        AllStressConfigs ==
            { StressConfig(en, sc, ct) : en \in BOOLEAN, sc \in BOOLEAN, ct \in BOOLEAN }
    IN
    \E stress \in AllStressConfigs, p \in StressParameters :
        Constructed(CompanyHealthy, HistPositive,
                    [Assumptions(DefaultRates, DefaultEsg, stress, Zero, 2, DefaultGrowthRates)
                        EXCEPT !.supply_chain_revenue_hit_pct = p[1], !.carbon_tax_rate = p[2]],
                    [total_esg |-> None])

SpecStress == InitStress /\ [][ApplyStressScenarios]_vars

(***************************************************************************)
(* calculate_sensitivity_matrix called directly                            *)
(***************************************************************************)

CalculateSensitivityMatrix ==
    LET \* base WACC: negative, zero, below, at and above the growth axis
        SensCallWacc == { R(-1, 10), Zero, R(1, 50), R(1, 10), R(1, 5) }
        \* base projected series: empty, one and two years, positive and negative
        SensCallSeries == { <<>>, <<R(4, 1)>>, <<R(4, 1), R(2, 1)>>, <<R(-2, 1), R(-2, 1)>> }
    IN
    /\ ncalls < MaxCalls
    /\ \E projected_fcf \in SensCallSeries, base_wacc \in SensCallWacc :
           ret' = [op |-> "calculate_sensitivity_matrix", status |-> "returned",
                   projected_fcf |-> projected_fcf, base_wacc |-> base_wacc,
                   value |-> calculate_sensitivity_matrix(company, assumptions,
                                                          projected_fcf, base_wacc)]
    /\ ncalls' = ncalls + 1
    /\ UNCHANGED <<cache_vars, runs, heap, company, historical, assumptions, esg_data, calculation_details,
                   results, returned>>

InitSens ==
    \E c \in { CompanyHealthy, CompanyNoShares, Company(-2, 10, 0, 0) },
       g \in { Zero, R(1, 40), R(1, 10) } :
        Constructed(c, HistPositive,
                    Assumptions(DefaultRates, DefaultEsg, DefaultStress, g, 2, DefaultGrowthRates),
                    [total_esg |-> None])

SpecSens == InitSens /\ [][CalculateSensitivityMatrix]_vars

(***************************************************************************)
(* calculate_dcf_valuation, apply_stress_scenarios and                     *)
(* calculate_sensitivity_matrix called in any order on one instance        *)
(***************************************************************************)
InitFrame ==
    \E c \in { CompanyHealthy, CompanyNoShares },
       stress \in { StressConfig(FALSE, FALSE, FALSE), StressConfig(FALSE, TRUE, TRUE),
                    StressConfig(TRUE, TRUE, FALSE), StressConfig(TRUE, TRUE, TRUE) } :
        Constructed(c, HistPositive,
                    Assumptions(RateProfile(Zero, R(1, 1)), DefaultEsg, stress, Zero, 2,
                                DefaultGrowthRates),
                    [total_esg |-> None])

NextFrame ==
    \/ CalculateDcfValuation
    \/ ApplyStressScenarios
    \/ CalculateSensitivityMatrix

SpecFrame == InitFrame /\ [][NextFrame]_vars

(***************************************************************************)
(* Two valuation runs at once: separate DCFModel instances built over the  *)
(* same company, historical, assumptions and ESG records, as analyze_ticker *)
(* does for each request.  A step is one statement group of                *)
(* calculate_dcf_valuation; steps of the two runs interleave freely.       *)
(***************************************************************************)
MaxRuns == 2

\* faulty variant of fresh_details: one dict object for every instance
fresh_details_shared(run) == 1

\* identity of the dict that __init__ of the run's instance creates with
\* self.calculation_details = {}: a new object for each instance
fresh_details(run) == run

\* the run's own calculation_details dict
DetailsOf(run) == heap[runs[run].details]

Step(run, locals, det) ==
    /\ runs' = [runs EXCEPT ![run] = locals]
    /\ heap' = [heap EXCEPT ![runs[run].details] = det]
    /\ UNCHANGED <<company, historical, assumptions, esg_data, calculation_details,
                   results, ret, returned, ncalls, cache_vars>>

\* wacc_results = self.calculate_wacc()
RunWacc(run) ==
    /\ runs[run].pc = "wacc"
    /\ Step(run, [runs[run] EXCEPT !.pc = "hist",
                                   !.wacc_results = calculate_wacc(company, assumptions, esg_data)],
            wacc_details(DetailsOf(run), company, assumptions, esg_data))

\* hist_metrics = self.calculate_historical_metrics()
RunHist(run) ==
    /\ runs[run].pc = "hist"
    /\ IF historical_raises(historical)
       THEN Step(run, [runs[run] EXCEPT !.pc = "done",
                          !.outcome = Raised("IndexError", "historical_metrics", runs[run].details)],
                 DetailsOf(run))
       ELSE Step(run, [runs[run] EXCEPT !.pc = "project",
                          !.hist_metrics = calculate_historical_metrics(historical)],
                 historical_details(DetailsOf(run), historical))

\* projected_fcf = self.project_cash_flows(base_fcf)
RunProject(run) ==
    /\ runs[run].pc = "project"
    /\ Step(run, [runs[run] EXCEPT !.pc = "value",
                     !.projected_fcf = project_cash_flows(assumptions,
                                                          runs[run].hist_metrics.ttm_fcf)],
            DetailsOf(run))

\* pv_fcf, terminal value, enterprise and equity value, per-share value, IRR
RunValue(run) ==
    /\ runs[run].pc = "value"
    /\ LET r == runs[run] IN
       IF r.projected_fcf # <<>> /\ discount_raises(r.wacc_results.wacc)
       THEN Step(run, [r EXCEPT !.pc = "done",
                          !.outcome = Raised("ZeroDivisionError", "pv_fcf", r.details)],
                 DetailsOf(run))
       ELSE IF r.projected_fcf # <<>> /\ terminal_raises(assumptions, r.wacc_results.wacc)
       THEN Step(run, [r EXCEPT !.pc = "done",
                          !.outcome = Raised("ZeroDivisionError", "terminal_value", r.details)],
                 DetailsOf(run))
       ELSE Step(run, [r EXCEPT !.pc = "stress",
                          !.base = base_valuation(company, assumptions, r.wacc_results,
                                                  r.projected_fcf)],
                 IF r.projected_fcf # <<>>
                 THEN terminal_details(DetailsOf(run), assumptions,
                                       r.projected_fcf[Len(r.projected_fcf)], r.wacc_results.wacc)
                 ELSE DetailsOf(run))

\* stressed_projected_fcf, carbon_costs, stress_notes = self.apply_stress_scenarios(projected_fcf)
RunStress(run) ==
    /\ runs[run].pc = "stress"
    /\ Step(run, [runs[run] EXCEPT !.pc = "stressed",
                     !.stress = apply_stress_scenarios(assumptions, runs[run].projected_fcf),
                     !.projected_fcf = argument_after_stress(assumptions, runs[run].projected_fcf)],
            DetailsOf(run))

\* the stressed valuation, when stress is enabled and the stressed series is not empty
RunStressed(run) ==
    /\ runs[run].pc = "stressed"
    /\ LET r == runs[run]
           fcf == r.stress.stressed_fcf
       IN  IF assumptions.stress_enabled /\ fcf # <<>>
           THEN Step(run, [r EXCEPT !.pc = "finish",
                              !.stressed_intrinsic =
                                  per_share(company, equity_value_of(company, assumptions, fcf,
                                                                     r.wacc_results.wacc))],
                     terminal_details(DetailsOf(run), assumptions, fcf[Len(fcf)],
                                      r.wacc_results.wacc))
           ELSE Step(run, [r EXCEPT !.pc = "finish"], DetailsOf(run))

\* stress_test, sensitivity and the results dict; 'calculation_details' is
\* the instance's dict itself, held in the outcome by its identity
RunFinish(run) ==
    /\ runs[run].pc = "finish"
    /\ LET r == runs[run] IN
       Step(run, [r EXCEPT !.pc = "done",
                     !.outcome = valuation_results(company, assumptions, r.details,
                                     r.wacc_results, r.hist_metrics, r.projected_fcf, r.base,
                                     r.stress, r.stressed_intrinsic)],
            DetailsOf(run))

\* what the caller of a finished run holds: the outcome with the dict its
\* calculation_details refers to, as that dict is now
Outcome(run) ==
    LET o == runs[run].outcome
        det == heap[o.details]
    IN  [ status |-> o.status, step |-> o.step, details |-> det,
          value |-> aliased(o.value, det) ]

InitConcurrent ==
    LET \* a DCFModel just constructed, before calculate_dcf_valuation is entered
        NewRun(run) ==
            [ pc |-> "wacc", details |-> fresh_details(run), wacc_results |-> None,
              hist_metrics |-> None, projected_fcf |-> None, base |-> None, stress |-> None,
              stressed_intrinsic |-> None, outcome |-> None ]
    IN
    \E c \in { CompanyHealthy, CompanyNoShares },
       stress \in { StressConfig(FALSE, FALSE, FALSE), StressConfig(TRUE, TRUE, FALSE),
                    StressConfig(TRUE, TRUE, TRUE) },
       rates \in { RateProfile(Zero, R(1, 1)), RateProfile(Zero, Zero) },
       h \in { HistPositive, HistEmpty, HistNoCapex } :
        /\ company = c
        /\ historical = h
        /\ assumptions = Assumptions(rates, DefaultEsg, stress, Zero, 2, DefaultGrowthRates)
        /\ esg_data = [total_esg |-> None]
        /\ results = EmptyDict
        /\ calculation_details = EmptyDict
        /\ ret = [op |-> "__init__", status |-> "returned"]
        /\ returned = <<>>
        /\ ncalls = 0
        /\ runs = [run \in 1..MaxRuns |-> NewRun(run)]
        /\ heap = [d \in 1..MaxRuns |-> EmptyDict]
        /\ CacheUnused

NextConcurrent ==
    \E run \in 1..MaxRuns :
        \/ RunWacc(run)
        \/ RunHist(run)
        \/ RunProject(run)
        \/ RunValue(run)
        \/ RunStress(run)
        \/ RunStressed(run)
        \/ RunFinish(run)

SpecConcurrent == InitConcurrent /\ [][NextConcurrent]_vars

(***************************************************************************)
(* show_your_work.py: generate_calculation_walkthrough                     *)
(*                                                                         *)
(* A formatted number is kept as the tuple of its text parts and the       *)
(* number itself (the digits printed are not modelled); of an item the     *)
(* model keeps label, value, explanation, tooltip and the formula and      *)
(* inputs of its details, leaving out 'calculation' and the 'intermediate' *)
(* and 'provenance' entries of details.  An argument that the caller       *)
(* leaves at its default None is the empty string for a text and the       *)
(* empty dict for details: "x or y" treats None and the empty value alike. *)
(***************************************************************************)
\* d.get(key, default)
Get(d, key, default) == IF key \in DOMAIN d THEN d[key] ELSE default

fmt_money(value, suffix) == IF value = None THEN "N/A" ELSE <<"$", value, suffix>>

fmt_price(value) == IF value = None THEN "N/A" ELSE <<"$", value>>

fmt_pct(value) == IF value = None THEN "N/A" ELSE <<value, "%">>

fmt_shares(value) == IF value = None THEN "N/A" ELSE <<value, "M">>

\* faulty variant of item: the tooltip is stored as given
item_tooltip_as_given(label, value, explanation, tooltip, details) ==
    [ label |-> label, value |-> value, explanation |-> explanation,
      tooltip |-> tooltip, details |-> details ]

\* _item: "tooltip": tooltip or explanation, "details": details or {}
item(label, value, explanation, tooltip, details) ==
    [ label |-> label, value |-> value, explanation |-> explanation,
      tooltip |-> IF tooltip # "" THEN tooltip ELSE explanation,
      details |-> IF DOMAIN details # {} THEN details ELSE EmptyDict ]

table(title, columns, rows) == [title |-> title, columns |-> columns, rows |-> rows]

\* rows of the "Last 4 Quarters" table index operating_cash_flow and capex by
\* the positions of quarters without a length check: IndexError when a
\* series is shorter than quarters
walkthrough_raises(payload) ==
    LET hist_data == Get(payload, "historical_data", EmptyDict)
        quarters == Get(hist_data, "quarters", <<>>)
    IN  \/ Len(quarters) > Len(Get(hist_data, "operating_cash_flow", <<>>))
        \/ Len(quarters) > Len(Get(hist_data, "capex", <<>>))

generate_calculation_walkthrough(payload) ==
    LET co == Get(payload, "company_data", EmptyDict)
        hist == Get(payload, "historical_metrics", EmptyDict)
        hist_data == Get(payload, "historical_data", EmptyDict)
        assum == Get(payload, "assumptions", EmptyDict)
        wres == Get(payload, "wacc_results", EmptyDict)
        calc_details == Get(payload, "calculation_details", EmptyDict)
        wdet == Get(calc_details, "wacc", EmptyDict)
        wcomp == Get(wdet, "components", EmptyDict)
        fdet == Get(calc_details, "fcf", EmptyDict)
        tdet == Get(calc_details, "terminal_value", EmptyDict)
        edet == Get(calc_details, "esg_adjustment", EmptyDict)
        stamp == Get(payload, "run_timestamp", None)
        run_log == Get(payload, "run_log", <<>>)
        summary == Get(payload, "run_log_summary", EmptyDict)
        rates == Get(assum, "revenue_growth_rates", <<>>)
        proj == Get(payload, "projected_fcf", <<>>)
        pvs == Get(payload, "pv_fcf", <<>>)
        section0 ==
          [ title |-> "Step 0: Run Context & Data Quality",
            items |-> <<
            item("Ticker", Get(co, "ticker", "N/A"),
                 "Ticker symbol used for this run.", "",
                 [formula |-> None,
                  inputs |-> [ticker |-> Get(co, "ticker", None)]]),
            item("Company Name", Get(co, "company_name", "N/A"),
                 "Company name resolved from the data source.", "",
                 [formula |-> None,
                  inputs |-> [company_name |-> Get(co, "company_name", None)]]),
            item("Run Timestamp", IF stamp # None THEN stamp ELSE "N/A",
                 "When this valuation run was generated.", "",
                 [formula |-> None,
                  inputs |-> [run_timestamp |-> stamp]]),
            item("Data Quality", Get(Get(payload, "data_quality", EmptyDict), "quality", "N/A"),
                 "Summary of data completeness checks.", "",
                 [formula |-> None,
                  inputs |-> [issues |-> Get(Get(payload, "data_quality", EmptyDict), "issues", <<>>), warnings |-> Get(Get(payload, "data_quality", EmptyDict), "warnings", <<>>)]]),
            item("Run Log Summary", <<Get(summary, "counts", EmptyDict)>>,
                 "Counts of info, warning, and error events captured during the run.", "",
                 [formula |-> None,
                  inputs |-> summary]) >> ]
        section1 ==
          [ title |-> "Step 1: Inputs & Data Sources",
            items |-> <<
            item("Current Stock Price", fmt_price(Get(co, "current_stock_price", None)),
                 "Market price used for upside/downside calculations.", "",
                 [formula |-> None,
                  inputs |-> [price |-> Get(co, "current_stock_price", None)]]),
            item("Shares Outstanding", fmt_shares(Get(co, "shares_outstanding", None)),
                 "Total shares outstanding in millions.", "",
                 [formula |-> None,
                  inputs |-> [shares_outstanding |-> Get(co, "shares_outstanding", None)]]),
            item("Cash", fmt_money(Get(co, "cash", None), "M"),
                 "Cash and equivalents used to adjust enterprise value.", "",
                 [formula |-> None,
                  inputs |-> [cash |-> Get(co, "cash", None)]]),
            item("Total Debt", fmt_money(Get(co, "total_debt", None), "M"),
                 "Total debt used to adjust enterprise value.", "",
                 [formula |-> None,
                  inputs |-> [total_debt |-> Get(co, "total_debt", None)]]),
            item("Risk-Free Rate", fmt_pct(Get(assum, "risk_free_rate", None)),
                 "Baseline return used in CAPM.", "",
                 [formula |-> None,
                  inputs |-> [risk_free_rate |-> Get(assum, "risk_free_rate", None)]]),
            item("Beta", IF Get(assum, "beta", None) # None THEN <<Get(assum, "beta", R(0, 1))>> ELSE "N/A",
                 "Sensitivity of the stock to market moves.", "",
                 [formula |-> None,
                  inputs |-> [beta |-> Get(assum, "beta", None)]]),
            item("Market Risk Premium", fmt_pct(Get(assum, "market_risk_premium", None)),
                 "Expected market return above the risk-free rate.", "",
                 [formula |-> None,
                  inputs |-> [market_risk_premium |-> Get(assum, "market_risk_premium", None)]]),
            item("Cost of Debt", fmt_pct(Get(assum, "cost_of_debt", None)),
                 "Pre-tax cost of debt used in WACC.", "",
                 [formula |-> None,
                  inputs |-> [cost_of_debt |-> Get(assum, "cost_of_debt", None)]]),
            item("Tax Rate", fmt_pct(Get(assum, "tax_rate", None)),
                 "Tax rate used to adjust the cost of debt.", "",
                 [formula |-> None,
                  inputs |-> [tax_rate |-> Get(assum, "tax_rate", None)]]),
            item("ESG Adjustment Enabled", IF Get(assum, "esg_adjustment_enabled", TRUE) THEN "Yes" ELSE "No",
                 "Whether ESG scores modify the cost of equity.", "",
                 [formula |-> None,
                  inputs |-> [esg_adjustment_enabled |-> Get(assum, "esg_adjustment_enabled", None)]]),
            item("ESG Strength (bps)", <<Get(assum, "esg_strength_bps", R(0, 1)), " bps">>,
                 "Max basis-point adjustment applied to cost of equity.", "",
                 [formula |-> None,
                  inputs |-> [esg_strength_bps |-> Get(assum, "esg_strength_bps", None)]]) >> ]
        quarters == Get(hist_data, "quarters", <<>>)
        ocf == Get(hist_data, "operating_cash_flow", <<>>)
        capex == Get(hist_data, "capex", <<>>)
        net_income == Get(hist_data, "net_income", <<>>)
        fcf_series == Get(hist, "quarterly_fcf", <<>>)
        start == IF Len(quarters) > 4 THEN Len(quarters) - 4 ELSE 0
        rows == [k \in 1..(Len(quarters) - start) |->
                   LET i == start + k
                   IN  << quarters[i], fmt_money(ocf[i], "M"), fmt_money(capex[i], "M"),
                          fmt_money(IF i <= Len(fcf_series) THEN fcf_series[i] ELSE None, "M"),
                          fmt_money(IF i <= Len(net_income) THEN net_income[i] ELSE None, "M") >>]
        section2 ==
          [ title |-> "Step 2: Historical Cash Flows (TTM)",
            formula |-> "FCF = Operating Cash Flow - CapEx",
            items |-> <<
            item("Operating Cash Flow (TTM)", fmt_money(Get(hist, "ttm_operating_cf", None), "M"),
                 "Total operating cash flow for the trailing twelve months.", "",
                 [formula |-> Get(fdet, "formula", None),
                  inputs |-> [operating_cash_flow |-> Get(hist, "ttm_operating_cf", None)]]),
            item("Capital Expenditures (TTM)", fmt_money(Get(hist, "ttm_capex", None), "M"),
                 "Capital expenditures for the trailing twelve months.", "",
                 [formula |-> Get(fdet, "formula", None),
                  inputs |-> [capex |-> Get(hist, "ttm_capex", None)]]),
            item("Free Cash Flow (TTM)", fmt_money(Get(hist, "ttm_fcf", None), "M"),
                 "Free cash flow used as the base for projections.", "",
                 [formula |-> Get(fdet, "formula", None),
                  inputs |-> Get(fdet, "components", EmptyDict)]) >>,
            tables |-> IF rows # <<>>
                       THEN << table("Last 4 Quarters",
                                     <<"Quarter", "Operating CF", "CapEx", "Free Cash Flow",
                                       "Net Income">>, rows) >>
                       ELSE <<>> ]
        section3 ==
          [ title |-> "Step 3: WACC (Discount Rate)",
            formula |-> "WACC = (E/V * Re) + (D/V * Rd * (1-T))",
            items |-> <<
            item("Cost of Equity (Re)", fmt_pct(Get(wres, "cost_of_equity", None)),
                 "Return required by equity investors (CAPM).", "",
                 [formula |-> "Ke = Rf + Beta * MRP",
                  inputs |-> [risk_free_rate |-> Get(assum, "risk_free_rate", None), beta |-> Get(assum, "beta", None), market_risk_premium |-> Get(assum, "market_risk_premium", None)]]),
            item("After-Tax Cost of Debt", fmt_pct(Get(wres, "after_tax_cost_debt", None)),
                 "Cost of debt after tax deductions.", "",
                 [formula |-> "Rd(after tax) = Rd * (1 - Tax Rate)",
                  inputs |-> [cost_of_debt |-> Get(assum, "cost_of_debt", None), tax_rate |-> Get(assum, "tax_rate", None)]]),
            item("Equity Weight (E/V)", IF Get(wres, "equity_weight", None) # None THEN <<Get(wres, "equity_weight", R(0, 1))>> ELSE "N/A",
                 "Proportion of capital financed by equity.", "",
                 [formula |-> "Equity Weight = Market Cap / Enterprise Value",
                  inputs |-> [market_cap |-> Get(wcomp, "market_cap", None), enterprise_value |-> Get(wcomp, "enterprise_value", None)]]),
            item("Debt Weight (D/V)", IF Get(wres, "debt_weight", None) # None THEN <<Get(wres, "debt_weight", R(0, 1))>> ELSE "N/A",
                 "Proportion of capital financed by debt.", "",
                 [formula |-> "Debt Weight = Net Debt / Enterprise Value",
                  inputs |-> [net_debt |-> Get(wcomp, "net_debt", None), enterprise_value |-> Get(wcomp, "enterprise_value", None)]]),
            item("ESG Adjustment (bps)", IF DOMAIN edet # {} THEN <<Get(edet, "strength_bps", R(0, 1)), " bps">> ELSE "N/A",
                 "Basis-point adjustment applied based on ESG score.", "",
                 [formula |-> "ESG adjustment varies between +/- strength based on score thresholds",
                  inputs |-> [score |-> Get(edet, "score", None), enabled |-> Get(edet, "enabled", None), thresholds |-> Get(edet, "thresholds", None)]]),
            item("WACC", fmt_pct(Get(wres, "wacc", None)),
                 "Blended cost of capital used to discount cash flows.", "",
                 [formula |-> Get(wdet, "formula", None),
                  inputs |-> wcomp]) >> ]
        stress == Get(payload, "stress_test", EmptyDict)
        growth(i) == IF i <= Len(rates) THEN rates[i]
                     ELSE IF rates # <<>> THEN rates[Len(rates)] ELSE None
        projected_items ==
          [i \in 1..Len(proj) |->
             item(<<"Year ", i, " Projected FCF">>, fmt_money(proj[i], "M"),
                  "Projected free cash flow based on growth assumptions.",
                  "Projected FCF with the chosen growth rate.",
                  [formula |-> "FCF(year) = FCF(prior) * (1 + growth)",
                   inputs |-> [growth_rate |-> growth(i),
                               prior_fcf |-> IF i > 1 THEN proj[i - 1]
                                             ELSE Get(hist, "ttm_fcf", None)]])]
        base_series == Get(stress, "base_projected_fcf", <<>>)
        stressed_series == Get(stress, "stressed_projected_fcf", <<>>)
        carbon_costs == Get(stress, "carbon_costs", <<>>)
        stress_tables ==
          IF Get(stress, "enabled", FALSE) /\ base_series # <<>>
          THEN << table("Stress Test: Base vs Stressed FCF",
                        <<"Year", "Base FCF", "Stressed FCF", "Carbon Cost">>,
                        [i \in 1..Len(base_series) |->
                           << <<"Year ", i>>, fmt_money(base_series[i], "M"),
                              fmt_money(IF i <= Len(stressed_series) THEN stressed_series[i]
                                        ELSE None, "M"),
                              IF i <= Len(carbon_costs) THEN fmt_money(carbon_costs[i], "")
                              ELSE "N/A" >>]) >>
          ELSE <<>>
        section4 ==
          [ title |-> "Step 4: Forecast Free Cash Flows",
            explanation |-> "Projected cash flows for the explicit forecast period.",
            items |-> projected_items,
            tables |-> stress_tables ]
        discount_items ==
          [i \in 1..Len(pvs) |->
             item(<<"Year ", i, " Present Value">>, fmt_money(pvs[i], "M"),
                  "Discounted cash flow for the year.", "",
                  [formula |-> "PV = FCF / (1 + WACC)^n",
                   inputs |-> [fcf |-> IF i <= Len(proj) THEN proj[i] ELSE None,
                               wacc |-> Get(wres, "wacc", None), year |-> i]])]
        section5 ==
          [ title |-> "Step 5: Discount to Present Value",
            formula |-> "PV = FV / (1 + WACC)^n",
            explanation |-> "Convert future cash flows to today's dollars.",
            items |-> discount_items ]
        section6 ==
          [ title |-> "Step 6: Terminal Value",
            formula |-> "TV = FCF(final) * (1 + g) / (WACC - g)",
            items |-> <<
            item("Terminal Value", fmt_money(Get(payload, "terminal_value", None), "M"),
                 "Value of cash flows beyond the explicit forecast period.", "",
                 [formula |-> Get(tdet, "formula", None),
                  inputs |-> Get(tdet, "components", EmptyDict)]),
            item("PV of Terminal Value", fmt_money(Get(payload, "pv_terminal_value", None), "M"),
                 "Terminal value discounted back to today.", "",
                 [formula |-> "PV(TV) = TV / (1 + WACC)^n",
                  inputs |-> [terminal_value |-> Get(payload, "terminal_value", None), wacc |-> Get(wres, "wacc", None), years |-> Len(proj)]]) >> ]
        section7 ==
          [ title |-> "Step 7: Equity Value and Per-Share Value",
            items |-> <<
            item("Enterprise Value", fmt_money(Get(payload, "enterprise_value_dcf", None), "M"),
                 "Sum of discounted cash flows and terminal value.", "",
                 [formula |-> "EV = sum(PV FCF) + PV(TV)",
                  inputs |-> [pv_fcf |-> pvs, pv_terminal_value |-> Get(payload, "pv_terminal_value", None)]]),
            item("Equity Value", fmt_money(Get(payload, "equity_value", None), "M"),
                 "Enterprise value adjusted for debt and cash.", "",
                 [formula |-> "Equity Value = Enterprise Value - Debt + Cash",
                  inputs |-> [enterprise_value |-> Get(payload, "enterprise_value_dcf", None), total_debt |-> Get(co, "total_debt", None), cash |-> Get(co, "cash", None)]]),
            item("Intrinsic Value Per Share", fmt_price(Get(payload, "intrinsic_value_per_share", None)),
                 "Equity value divided by shares outstanding.", "",
                 [formula |-> "Intrinsic Value = Equity Value / Shares Outstanding",
                  inputs |-> [equity_value |-> Get(payload, "equity_value", None), shares_outstanding |-> Get(co, "shares_outstanding", None)]]),
            item("Upside/Downside", fmt_pct(IF Get(payload, "upside_pct", None) # None THEN RDiv(Get(payload, "upside_pct", R(0, 1)), R(100, 1)) ELSE None),
                 "Percent difference between intrinsic value and market price.", "",
                 [formula |-> "(Intrinsic - Price) / Price",
                  inputs |-> [intrinsic_value_per_share |-> Get(payload, "intrinsic_value_per_share", None), current_price |-> Get(co, "current_stock_price", None)]]) >> ]
        sensitivity == Get(payload, "sensitivity", EmptyDict)
        matrix == Get(sensitivity, "matrix", <<>>)
        matrix_rows == [r \in 1..Len(matrix) |->
                          [c \in 1..Len(matrix[r]) |->
                             IF matrix[r][c] # None THEN fmt_price(matrix[r][c]) ELSE "N/A"]]
        wacc_axis == Get(sensitivity, "wacc_range", <<>>)
        growth_axis == Get(sensitivity, "growth_range", <<>>)
        sensitivity_sections ==
          IF matrix # <<>>
          THEN << [ title |-> "Optional: Sensitivity Matrix",
                    items |-> <<>>,
                    tables |-> << table("Sensitivity: WACC vs Terminal Growth",
                                        <<" ">> \o [j \in 1..Len(growth_axis) |->
                                                      <<growth_axis[j], "%">>],
                                        [r \in 1..Min2(Len(wacc_axis), Len(matrix_rows)) |->
                                           << <<wacc_axis[r], "%">> >> \o matrix_rows[r]]) >> ] >>
          ELSE <<>>
        log_section ==
          [ title |-> "Run / Error Log", run_log |-> run_log, summary |-> summary,
            items |-> <<>> ]
        upside == Get(payload, "upside_pct", Zero)
    IN  [ sections |-> << section0, section1, section2, section3, section4, section5,
                          section6, section7 >> \o sensitivity_sections \o << log_section >>,
          run_log |-> run_log,
          run_log_summary |-> summary,
          key_assumptions |->
            [ growth_rates |-> Get(assum, "revenue_growth_rates", <<>>),
              perpetual_growth |-> fmt_pct(Get(assum, "perpetual_growth_rate", None)),
              tax_rate |-> fmt_pct(Get(assum, "tax_rate", None)),
              risk_free_rate |-> fmt_pct(Get(assum, "risk_free_rate", None)),
              market_risk_premium |-> fmt_pct(Get(assum, "market_risk_premium", None)) ],
          final_verdict |->
            [ intrinsic_value |-> fmt_price(Get(payload, "intrinsic_value_per_share", None)),
              market_price |-> fmt_price(Get(co, "current_stock_price", None)),
              upside |-> IF Get(payload, "upside_pct", None) # None
                         THEN <<upside, "%">> ELSE "N/A",
              recommendation |-> IF RGt(upside, R(15, 1)) THEN "BUY"
                                 ELSE IF RGt(upside, R(-10, 1)) THEN "HOLD" ELSE "SELL" ] ]

\* run_log.py summarize_run_log: counts by level, total, the first five
\* warnings and errors
summarize_run_log(log) ==
    LET count(level) == Cardinality({i \in 1..Len(log) : log[i].level = level})
        important == SelectSeq(log, LAMBDA e : e.level \in {"error", "warning"})
    IN  [ counts |-> [info |-> count("info"), warning |-> count("warning"),
                      error |-> count("error")],
          total |-> Len(log),
          important |-> SubSeq(important, 1, Min2(5, Len(important))) ]

\* the payload handed to the walkthrough: the engine's results with the
\* company, historical and assumptions records analyze_ticker adds to them
\* (quarters is built in step with operating_cash_flow), the run log and its summary
WalkthroughPayload(log) ==
    [ company_data |-> company,
      historical_data |->
          [quarters |-> [i \in 1..Len(historical.operating_cash_flow) |-> i]] @@ historical,
      assumptions |-> assumptions,
      run_log |-> log,
      run_log_summary |-> summarize_run_log(log) ] @@ results

GenerateWalkthrough ==
    LET \* run logs of a request: empty, one warning, an info and an error
        RunLogs ==
            { <<>>,
              << [level |-> "warning", subsystem |-> "NEWS", message |-> "News API limit"] >>,
              << [level |-> "info", subsystem |-> "DCF", message |-> "DCF calculation completed"],
                 [level |-> "error", subsystem |-> "ESG", message |-> "ESG fetch failed"] >> }
    IN
    /\ ncalls < MaxCalls
    /\ ret.op = "calculate_dcf_valuation"
    /\ ret.status = "returned"
    /\ \E log \in RunLogs :
           ret' = IF walkthrough_raises(WalkthroughPayload(log))
                  THEN [op |-> "generate_calculation_walkthrough", status |-> "IndexError",
                        payload |-> WalkthroughPayload(log)]
                  ELSE [op |-> "generate_calculation_walkthrough", status |-> "returned",
                        payload |-> WalkthroughPayload(log),
                        value |-> generate_calculation_walkthrough(WalkthroughPayload(log))]
    /\ ncalls' = ncalls + 1
    /\ UNCHANGED <<cache_vars, runs, heap, company, historical, assumptions, esg_data,
                   calculation_details, results, returned>>

InitWalkthrough ==
    \E c \in {CompanyHealthy, CompanyNoShares},
       stress \in {StressConfig(FALSE, FALSE, FALSE), StressConfig(TRUE, TRUE, TRUE)},
       h \in {HistPositive, HistNegative, HistEmpty}, years \in 1..2,
       g \in {Zero, R(1, 5)} :
        Constructed(c, h, Assumptions(RateProfile(Zero, R(1, 1)), DefaultEsg, stress, g,
                                      years, DefaultGrowthRates),
                    [total_esg |-> None])

NextWalkthrough ==
    \/ CalculateDcfValuation
    \/ GenerateWalkthrough

SpecWalkthrough == InitWalkthrough /\ [][NextWalkthrough]_vars

(***************************************************************************)
(* calculate_dcf_valuation over costs of capital of either sign and         *)
(* perpetual growth rates below, at and above them                          *)
(***************************************************************************)
InitGrowth ==
    \E c \in { CompanyHealthy, CompanyNoShares },
       rates \in { RateProfile(Zero, R(1, 1)), RateProfile(R(1, 5), R(1, 1)),
                   RateProfile(Zero, R(-2, 1)) },
       g \in { R(-1, 5), Zero, R(1, 10), R(1, 5), R(2, 5) },
       stress \in { StressConfig(FALSE, FALSE, FALSE), StressConfig(TRUE, TRUE, FALSE),
                    StressConfig(TRUE, TRUE, TRUE) },
       years \in 1..2 :
        Constructed(c, HistPositive,
                    Assumptions(rates, DefaultEsg, stress, g, years, DefaultGrowthRates),
                    [total_esg |-> None])

SpecGrowth == InitGrowth /\ [][CalculateDcfValuation]_vars

(***************************************************************************)
(* caching_layer: cache_response and clear_cache.  A call is a sequence of *)
(* steps, one per access of the module-level dicts _CACHE and              *)
(* _CACHE_TIMESTAMPS; steps of different threads interleave.  The pc of a  *)
(* thread is the source line it is about to execute.                       *)
(***************************************************************************)
expire_minutes == 2
MaxClock == 3
MaxCacheCalls == 3
MaxThreads == 2

DelKey(d, k) == [x \in (DOMAIN d) \ {k} |-> d[x]]

\* f"{func.__name__}:{json.dumps({'args': args, 'kwargs': kwargs}, sort_keys=True)}"
make_cache_key(func, args) == <<func, ":", [args |-> args, kwargs |-> EmptyDict]>>

WrappedCalls == { make_cache_key("fetch_esg_data", <<ticker>>) : ticker \in {"AAPL", "MSFT"} }

IdleThread(keys) ==
    [ pc          |-> "idle",
      may_call    |-> keys,      \* the calls this thread makes
      calls       |-> 0,         \* calls made so far
      cache_key   |-> None,
      raises      |-> FALSE,     \* whether func raises in this call
      found       |-> None,      \* the entry the lookup of line 32 saw
      age_minutes |-> None,
      result      |-> None,
      invoked     |-> 0,         \* invocations of func in this call
      last        |-> None ]     \* how the last call ended

RECURSIVE calls_made(_)
calls_made(n) == IF n = 0 THEN 0 ELSE threads[n].calls + calls_made(n - 1)

Running(t, pc) == t \in DOMAIN threads /\ threads[t].pc = pc

\* the call of thread t ends: the wrapper returns value or lets an exception out
Leave(t, status, value, invoked) ==
    [ IdleThread(threads[t].may_call) EXCEPT
        !.calls = threads[t].calls,
        !.last  = [ cache_key   |-> threads[t].cache_key,
                    raises      |-> threads[t].raises,
                    found       |-> threads[t].found,
                    age_minutes |-> threads[t].age_minutes,
                    status      |-> status,
                    value       |-> value,
                    invoked     |-> invoked,
                    at          |-> now ] ]

EngineUnchanged ==
    UNCHANGED <<company, historical, assumptions, esg_data, calculation_details,
                results, ret, returned, ncalls, runs, heap>>

\* line 30: a thread calls a wrapped function
WrapperEnter(t) ==
    /\ Running(t, "idle")
    /\ calls_made(Len(threads)) < MaxCacheCalls
    /\ \E key \in threads[t].may_call, raises \in BOOLEAN :
          threads' = [threads EXCEPT ![t] =
                        [ IdleThread(threads[t].may_call) EXCEPT !.pc = "32", !.calls = threads[t].calls + 1,
                          !.cache_key = key, !.raises = raises ]]
    /\ UNCHANGED <<cache, cache_timestamps, now>>
    /\ EngineUnchanged

\* line 32, left operand: cache_key in _CACHE
LookupCache(t) ==
    /\ Running(t, "32")
    /\ threads' = [threads EXCEPT ![t] =
          IF HasKey(cache, threads[t].cache_key)
          THEN [@ EXCEPT !.pc = "32b"]
          ELSE [@ EXCEPT !.pc = "63"]]
    /\ UNCHANGED <<cache, cache_timestamps, now>>
    /\ EngineUnchanged

\* line 32, right operand: cache_key in _CACHE_TIMESTAMPS
LookupTimestamp(t) ==
    /\ Running(t, "32b")
    /\ threads' = [threads EXCEPT ![t] =
          IF HasKey(cache_timestamps, threads[t].cache_key)
          THEN [@ EXCEPT !.pc = "33",
                         !.found = [ stored |-> Get(cache, threads[t].cache_key, None),
                                     stamp  |-> cache_timestamps[threads[t].cache_key] ]]
          ELSE [@ EXCEPT !.pc = "63"]]
    /\ UNCHANGED <<cache, cache_timestamps, now>>
    /\ EngineUnchanged

\* faulty variant of is_fresh: an entry of age expire_minutes is still served
is_fresh_inclusive(age_minutes) == age_minutes <= expire_minutes

\* line 34: age_minutes < expire_minutes
is_fresh(age_minutes) == age_minutes < expire_minutes

\* lines 33-34: age_minutes = utcnow() - _CACHE_TIMESTAMPS[cache_key]
ReadAge(t) ==
    /\ Running(t, "33")
    /\ threads' = [threads EXCEPT ![t] =
          IF ~HasKey(cache_timestamps, threads[t].cache_key)
          THEN Leave(t, "KeyError", None, 0)
          ELSE LET age == now - cache_timestamps[threads[t].cache_key]
               IN  [@ EXCEPT !.age_minutes = age,
                             !.pc = IF is_fresh(age) THEN "43" ELSE "44"]]
    /\ UNCHANGED <<cache, cache_timestamps, now>>
    /\ EngineUnchanged

\* line 43: return _CACHE[cache_key]
ReturnStored(t) ==
    /\ Running(t, "43")
    /\ threads' = [threads EXCEPT ![t] =
          IF HasKey(cache, threads[t].cache_key)
          THEN Leave(t, "returned", cache[threads[t].cache_key], 0)
          ELSE Leave(t, "KeyError", None, 0)]
    /\ UNCHANGED <<cache, cache_timestamps, now>>
    /\ EngineUnchanged

\* line 44: del _CACHE[cache_key]
DeleteStored(t) ==
    /\ Running(t, "44")
    /\ IF HasKey(cache, threads[t].cache_key)
       THEN /\ cache' = DelKey(cache, threads[t].cache_key)
            /\ threads' = [threads EXCEPT ![t].pc = "45"]
       ELSE /\ threads' = [threads EXCEPT ![t] = Leave(t, "KeyError", None, 0)]
            /\ UNCHANGED cache
    /\ UNCHANGED <<cache_timestamps, now>>
    /\ EngineUnchanged

\* line 45: del _CACHE_TIMESTAMPS[cache_key]
DeleteTimestamp(t) ==
    /\ Running(t, "45")
    /\ IF HasKey(cache_timestamps, threads[t].cache_key)
       THEN /\ cache_timestamps' = DelKey(cache_timestamps, threads[t].cache_key)
            /\ threads' = [threads EXCEPT ![t].pc = "63"]
       ELSE /\ threads' = [threads EXCEPT ![t] = Leave(t, "KeyError", None, 0)]
            /\ UNCHANGED cache_timestamps
    /\ UNCHANGED <<cache, now>>
    /\ EngineUnchanged

\* line 63: result = func(*args, **kwargs).  The result of a call is named by
\* the thread and the number of the call, so that no two invocations agree.
InvokeWrapped(t) ==
    /\ Running(t, "63")
    /\ threads' = [threads EXCEPT ![t] =
          IF threads[t].raises
          THEN Leave(t, "Exception", None, threads[t].invoked + 1)
          ELSE [@ EXCEPT !.pc = "64", !.invoked = @ + 1,
                         !.result = <<"result", t, threads[t].calls>>]]
    /\ UNCHANGED <<cache, cache_timestamps, now>>
    /\ EngineUnchanged

\* line 64: _CACHE[cache_key] = result
StoreResult(t) ==
    /\ Running(t, "64")
    /\ cache' = SetKey(cache, threads[t].cache_key, threads[t].result)
    /\ threads' = [threads EXCEPT ![t].pc = "65"]
    /\ UNCHANGED <<cache_timestamps, now>>
    /\ EngineUnchanged

\* line 65: _CACHE_TIMESTAMPS[cache_key] = datetime.utcnow()
StoreTimestamp(t) ==
    /\ Running(t, "65")
    /\ cache_timestamps' = SetKey(cache_timestamps, threads[t].cache_key, now)
    /\ threads' = [threads EXCEPT ![t].pc = "66"]
    /\ UNCHANGED <<cache, now>>
    /\ EngineUnchanged

\* line 66: return result
ReturnResult(t) ==
    /\ Running(t, "66")
    /\ threads' = [threads EXCEPT ![t] = Leave(t, "returned", threads[t].result, threads[t].invoked)]
    /\ UNCHANGED <<cache, cache_timestamps, now>>
    /\ EngineUnchanged

\* a thread calls clear_cache
ClearEnter(t) ==
    /\ Running(t, "idle")
    /\ calls_made(Len(threads)) < MaxCacheCalls
    /\ threads' = [threads EXCEPT ![t] =
                     [ IdleThread(threads[t].may_call) EXCEPT !.pc = "74", !.calls = threads[t].calls + 1 ]]
    /\ UNCHANGED <<cache, cache_timestamps, now>>
    /\ EngineUnchanged

\* line 74: _CACHE.clear()
ClearStored(t) ==
    /\ Running(t, "74")
    /\ cache' = EmptyDict
    /\ threads' = [threads EXCEPT ![t].pc = "75"]
    /\ UNCHANGED <<cache_timestamps, now>>
    /\ EngineUnchanged

\* lines 75-76: _CACHE_TIMESTAMPS.clear(), and clear_cache returns
ClearTimestamps(t) ==
    /\ Running(t, "75")
    /\ cache_timestamps' = EmptyDict
    /\ threads' = [threads EXCEPT ![t] = Leave(t, "cleared", None, 0)]
    /\ UNCHANGED <<cache, now>>
    /\ EngineUnchanged

\* a minute passes
Tick ==
    /\ now < MaxClock
    /\ now' = now + 1
    /\ UNCHANGED <<cache, cache_timestamps, threads>>
    /\ EngineUnchanged

\* the module right after import, called by the threads ts
CacheImported(keys, n) ==
    /\ company = EmptyDict
    /\ historical = EmptyDict
    /\ assumptions = EmptyDict
    /\ esg_data = EmptyDict
    /\ results = EmptyDict
    /\ calculation_details = EmptyDict
    /\ ret = [op |-> "import", status |-> "returned"]
    /\ returned = <<>>
    /\ ncalls = 0
    /\ runs = <<>>
    /\ heap = <<>>
    /\ cache = EmptyDict
    /\ cache_timestamps = EmptyDict
    /\ now = 0
    /\ threads = [t \in 1..n |-> IdleThread(keys)]

\* a minute passes or one thread takes one step
NextCache ==
    \/ Tick
    \/ \E t \in 1..MaxThreads :
        \/ WrapperEnter(t)
        \/ LookupCache(t)
        \/ LookupTimestamp(t)
        \/ ReadAge(t)
        \/ ReturnStored(t)
        \/ DeleteStored(t)
        \/ DeleteTimestamp(t)
        \/ InvokeWrapped(t)
        \/ StoreResult(t)
        \/ StoreTimestamp(t)
        \/ ReturnResult(t)
        \/ ClearEnter(t)
        \/ ClearStored(t)
        \/ ClearTimestamps(t)

\* one thread: the calls follow one another
SpecCache == CacheImported(WrappedCalls, 1) /\ [][NextCache]_vars

\* several threads calling the same wrapped function with the same arguments
SpecCacheThreads ==
    /\ CacheImported({make_cache_key("fetch_esg_data", <<"AAPL">>)}, MaxThreads)
    /\ [][NextCache]_vars

(***************************************************************************)
(* fetch_esg_data: the ESG sources and their fallback chain.  What a       *)
(* source answers is an input; a source method gives [raised, value],      *)
(* where value is the record it returns or None.                           *)
(***************************************************************************)
\* _parse_esg_score.  A raw value is None, [number |-> x] or [text |-> s].
parse_esg_score(value) ==
    LET \* str(value).strip().upper()
        upper(s) == CASE s = " a- " -> "A-"
                      [] s = "n/a"  -> "N/A"
                      [] OTHER      -> s
        grade_map == [x \in {"A-", "F"} |-> IF x = "A-" THEN R(85, 1) ELSE R(30, 1)]
        \* float(raw), None standing for ValueError
        float(s) == CASE s = "72.5" -> R(145, 2)
                      [] s = "150"  -> R(150, 1)
                      [] s = "-3"   -> R(-3, 1)
                      [] OTHER      -> None
        clamp(score) ==
            LET low == IF RLt(score, R(100, 1)) THEN score ELSE R(100, 1)
            IN  IF RGt(low, Zero) THEN low ELSE Zero
    IN  IF value = None THEN None
        ELSE IF "number" \in DOMAIN value THEN clamp(value.number)
        ELSE IF upper(value.text) \in DOMAIN grade_map THEN clamp(grade_map[upper(value.text)])
        ELSE IF float(upper(value.text)) = None THEN None
        ELSE clamp(float(upper(value.text)))

\* faulty variant of fetch_from_yahoo: an exception of yfinance is not caught
fetch_from_yahoo_uncaught(answer) ==
    IF answer.kind = "raises" THEN [raised |-> TRUE, value |-> None]
    ELSE IF answer.kind = "empty" \/ parse_esg_score(answer.totalEsg) = None
    THEN [raised |-> FALSE, value |-> None]
    ELSE [ raised |-> FALSE,
           value  |-> [ source     |-> "Yahoo Finance (yfinance)",
                        total_esg  |-> parse_esg_score(answer.totalEsg),
                        confidence |-> "medium", is_estimated |-> FALSE ] ]

\* ESGDataFetcher._fetch_from_yahoo: the whole body is inside try / except Exception
fetch_from_yahoo(answer) ==
    IF answer.kind \in {"raises", "empty"} \/ parse_esg_score(answer.totalEsg) = None
    THEN [raised |-> FALSE, value |-> None]
    ELSE [ raised |-> FALSE,
           value  |-> [ source     |-> "Yahoo Finance (yfinance)",
                        total_esg  |-> parse_esg_score(answer.totalEsg),
                        confidence |-> "medium", is_estimated |-> FALSE ] ]

\* ESGDataFetcher._fetch_from_fmp: no request without an API key; the request
\* and the parsing are inside try / except Exception
fetch_from_fmp(answer) ==
    IF answer.kind \in {"no_key", "raises", "status", "empty"}
         \/ parse_esg_score(answer.ESGScore) = None
    THEN [raised |-> FALSE, value |-> None]
    ELSE [ raised |-> FALSE,
           value  |-> [ source     |-> "Financial Modeling Prep",
                        total_esg  |-> parse_esg_score(answer.ESGScore),
                        confidence |-> "high", is_estimated |-> FALSE ] ]

\* ESGDataFetcher._estimate_from_news.  NewsAnalyzer.fetch_company_news catches
\* its own exceptions and returns [] then.
estimate_from_news(answer) ==
    IF answer.kind \in {"no_key", "raises", "no_articles"}
    THEN [raised |-> FALSE, value |-> None]
    ELSE LET m == answer.esg_mentions
             base_score == IF m > 20 THEN 65 ELSE IF m > 10 THEN 55
                           ELSE IF m > 5 THEN 45 ELSE 35
         IN  [ raised |-> FALSE,
               value  |-> [ source     |-> "News-based estimate",
                            total_esg  |-> R(base_score, 1),
                            confidence |-> IF m > 20 THEN "medium"
                                           ELSE IF m > 5 THEN "low" ELSE "very_low",
                            is_estimated |-> TRUE ] ]

\* ESGDataFetcher._sector_baseline.  sector.keys is the set of baseline keys
\* that occur in sector.strip().lower(); the first of them in the order of the
\* sector_baselines dict is selected.
sector_baseline(sector) ==
    LET order == <<"technology", "financial", "healthcare", "consumer", "energy", "industrial">>
        total == <<45, 50, 48, 42, 35, 40>>
        hits == {i \in DOMAIN order : order[i] \in sector.keys}
        first == CHOOSE i \in hits : \A j \in hits : i <= j
    IN  [ raised |-> FALSE,
          value  |-> [ source     |-> IF hits # {} THEN <<"Sector baseline", order[first]>>
                                      ELSE <<"Sector baseline", "default">>,
                       total_esg  |-> IF hits # {} THEN R(total[first], 1) ELSE R(45, 1),
                       confidence |-> "very_low", is_estimated |-> TRUE ] ]

\* ESGDataFetcher.fetch_esg_data: the outcome and the source methods called.
\* An exception a method lets out ends the call.
fetch_esg_data(world) ==
    LET fmp == fetch_from_fmp(world.fmp)
        yahoo == fetch_from_yahoo(world.yahoo)
        news == estimate_from_news(world.news)
        baseline == sector_baseline(world.sector)
        done(step, called) == [ status |-> IF step.raised THEN "Exception" ELSE "returned",
                                value |-> step.value, consulted |-> called ]
    IN  IF fmp.raised \/ fmp.value # None THEN done(fmp, <<"fmp">>)
        ELSE IF yahoo.raised \/ yahoo.value # None THEN done(yahoo, <<"fmp", "yahoo">>)
        ELSE IF news.raised \/ news.value # None THEN done(news, <<"fmp", "yahoo", "news">>)
        ELSE done(baseline, <<"fmp", "yahoo", "news", "baseline">>)

\* one call of fetch_esg_data, the sources answering in any way they can; the
\* call keeps no state, so one call per behaviour shows all it can do
FetchEsgData ==
    LET RawScores == { None, [number |-> R(-5, 1)], [number |-> R(50, 1)],
                       [number |-> R(150, 1)], [text |-> " a- "], [text |-> "72.5"],
                       [text |-> "150"], [text |-> "n/a"] }
        Failures == { [kind |-> k] : k \in {"no_key", "raises", "status", "empty"} }
        Sectors == { [text |-> "", keys |-> {}],
                     [text |-> "Energy", keys |-> {"energy"}],
                     [text |-> "Industrial Technology", keys |-> {"industrial", "technology"}],
                     [text |-> "Utilities", keys |-> {}] }
    IN  /\ ncalls = 0
        /\ \E fmp \in Failures \cup { [kind |-> "data", ESGScore |-> v] : v \in RawScores },
              yahoo \in { [kind |-> "raises"], [kind |-> "empty"] }
                           \cup { [kind |-> "data", totalEsg |-> v] : v \in RawScores },
              news \in { [kind |-> "no_key"], [kind |-> "raises"], [kind |-> "no_articles"] }
                           \cup { [kind |-> "articles", esg_mentions |-> m] : m \in {3, 8, 15, 25} },
              sector \in Sectors :
                LET world == [fmp |-> fmp, yahoo |-> yahoo, news |-> news, sector |-> sector]
                    out == fetch_esg_data(world)
                IN  ret' = [ op |-> "fetch_esg_data", status |-> out.status, world |-> world,
                             value |-> out.value, consulted |-> out.consulted ]
        /\ ncalls' = ncalls + 1
        /\ UNCHANGED <<cache_vars, runs, heap, company, historical, assumptions, esg_data,
                       calculation_details, results, returned>>

SpecEsg == CacheImported({}, 0) /\ [][FetchEsgData]_vars

(***************************************************************************)
(* Properties.  Each is a predicate on the state after a call: ret holds   *)
(* the call made and its outcome, results and calculation_details what the *)
(* call left on the instance.                                              *)
(***************************************************************************)
DcfCalled   == ret.op = "calculate_dcf_valuation"
DcfReturned == DcfCalled /\ ret.status = "returned"
WaccCalled  == ret.op = "calculate_wacc"
HistCalled  == ret.op = "calculate_historical_metrics"
TerminalCalled == ret.op = "calculate_terminal_value"

\* C1: calculate_dcf_valuation never raises: whatever the company, the
\* assumptions (forecast_years >= 1) and the historical series are, the call
\* returns a result record.  (Violated: a WACC of exactly 0 or -1 and a capex
\* list shorter than operating_cash_flow raise.)
C1_NeverRaises == DcfCalled => ret.status = "returned"

\* the growth rate the claim C2 prescribes for a call with discount rate wacc
C2_HalfWacc(wacc) == RMul(wacc, R(1, 2))

\* the Gordon formula was evaluated with growth rate g: value * (wacc - g) = fcf * (1 + g)
C2_GordonUses(g) ==
    ret.status = "returned" =>
        RMul(ret.value, RSub(ret.wacc, g)) = RMul(ret.final_fcf, RAdd(One, g))

\* C2 as stated: when perpetual_growth_rate >= WACC the growth rate
\* calculate_terminal_value uses is WACC * 0.5 and is never the original
\* rate; when perpetual_growth_rate < WACC the original rate is used.
C2_NeverOriginal ==
    TerminalCalled =>
        IF RGe(assumptions.perpetual_growth_rate, ret.wacc)
        THEN /\ ret.growth_rate = C2_HalfWacc(ret.wacc)
             /\ ret.growth_rate # assumptions.perpetual_growth_rate
        ELSE ret.growth_rate = assumptions.perpetual_growth_rate

\* C2 amended: when perpetual_growth_rate >= WACC the growth rate used in the
\* Gordon formula is WACC * 0.5, which differs from the original rate whenever
\* WACC > 0; when perpetual_growth_rate < WACC the original rate is used.
C2_GrowthPolicy ==
    TerminalCalled =>
        IF RGe(assumptions.perpetual_growth_rate, ret.wacc)
        THEN /\ ret.growth_rate = C2_HalfWacc(ret.wacc)
             /\ C2_GordonUses(C2_HalfWacc(ret.wacc))
             /\ RGt(ret.wacc, Zero) => ret.growth_rate # assumptions.perpetual_growth_rate
        ELSE /\ ret.growth_rate = assumptions.perpetual_growth_rate
             /\ C2_GordonUses(assumptions.perpetual_growth_rate)

\* a call that returned with perpetual_growth_rate >= WACC > 0
C2_Witness ==
    /\ TerminalCalled
    /\ ret.status = "returned"
    /\ RGt(ret.wacc, Zero)
    /\ RGe(assumptions.perpetual_growth_rate, ret.wacc)

\* enterprise value as the claim C3 writes it: market_cap + total_debt - cash
C3_EnterpriseValue ==
    RSub(RAdd(RMul(company.shares_outstanding, company.current_stock_price),
              company.total_debt), company.cash)

\* C3: the weights calculate_wacc returns add up to 1 whenever enterprise
\* value > 0 (also with negative net debt); when enterprise value <= 0 they
\* are 1 and 0 and WACC is the post-tilt cost of equity.
C3_Weights ==
    WaccCalled =>
        /\ ret.value.enterprise_value = C3_EnterpriseValue
        /\ RGt(C3_EnterpriseValue, Zero) =>
               RAdd(ret.value.equity_weight, ret.value.debt_weight) = One
        /\ RLe(C3_EnterpriseValue, Zero) =>
               /\ ret.value.equity_weight = One
               /\ ret.value.debt_weight = Zero
               /\ ret.value.wacc = ret.value.ke_after_esg

\* positive enterprise value with a net cash position: the debt weight is negative
C3_Witness ==
    /\ WaccCalled
    /\ RGt(C3_EnterpriseValue, Zero)
    /\ RLt(ret.value.net_debt, Zero)
    /\ RLt(ret.value.debt_weight, Zero)

\* C4: for operating_cash_flow and capex lists of at least 4 quarters each
\* (not necessarily of the same length) calculate_historical_metrics returns
\* ttm_fcf = sum(operating_cash_flow[-4:]) + sum(capex[-4:]) = ttm_operating_cf
\* + ttm_capex.  (Violated when the two lengths differ.)
C4_TtmIdentity ==
    (/\ HistCalled
     /\ Len(historical.operating_cash_flow) >= TtmWindow
     /\ Len(historical.capex) >= TtmWindow)
    => /\ ret.status = "returned"
       /\ ret.value.ttm_fcf = RAdd(RSum(LastK(historical.operating_cash_flow, TtmWindow)),
                                   RSum(LastK(historical.capex, TtmWindow)))
       /\ ret.value.ttm_fcf = RAdd(ret.value.ttm_operating_cf, ret.value.ttm_capex)

\* C5: two calls of calculate_dcf_valuation with identical inputs, on the same
\* instance or on two instances built from equal inputs, give identical
\* results in every field; no earlier call on the instance leaves state
\* behind that changes a later call's output.
C5_Idempotent ==
    /\ \A i \in DOMAIN returned : returned[i].result = returned[i].fresh
    /\ \A i, j \in DOMAIN returned :
           returned[i].inputs = returned[j].inputs => returned[i].result = returned[j].result
    /\ (DcfReturned /\ Len(returned) >= 2) =>
           aliased(returned[Len(returned) - 1].result, calculation_details) = results

\* the instance has returned two valuations
C5_Witness == DcfReturned /\ Len(returned) = 2

\* the valid cells of every growth column strictly decrease along the WACC axis
C6_ColumnsDecrease(sens) ==
    \A j \in 1..5 : \A i1, i2 \in 1..5 :
        (i1 < i2 /\ sens.matrix[i1][j] # None /\ sens.matrix[i2][j] # None)
        => RLt(sens.matrix[i2][j], sens.matrix[i1][j])

\* discount rates beyond the grid, for the pairwise comparison of C6
C6_Rates == {R(1, 4), R(1, 2), R(1, 1)}

\* intrinsic value per share at w2 strictly below the one at w1, for w1 < w2
\* both above perpetual_growth_rate and both valid
C6_PairsDecrease ==
    \A w1, w2 \in C6_Rates :
        LET g  == assumptions.perpetual_growth_rate
            v1 == calc_intrinsic_for_sensitivity(company, results.projected_fcf, w1, g)
            v2 == calc_intrinsic_for_sensitivity(company, results.projected_fcf, w2, g)
        IN  (RLt(w1, w2) /\ RGt(w1, g) /\ v1 # None /\ v2 # None) => RLt(v2, v1)

C6_HasGrid == DcfReturned /\ DOMAIN results.sensitivity # {}

\* C6 as stated: for every projected series (zero or negative cash flows
\* included) the intrinsic value per share strictly decreases in the discount
\* rate; within each growth column of the sensitivity matrix the valid cells
\* strictly decrease along the WACC axis.
C6_AlwaysDecreasing ==
    /\ C6_HasGrid => C6_ColumnsDecrease(results.sensitivity)
    /\ DcfReturned => C6_PairsDecrease

C6_PositiveSeries ==
    \A k \in DOMAIN results.projected_fcf : RGt(results.projected_fcf[k], Zero)

\* C6 amended: for every projected series whose cash flows are all strictly
\* positive (terminal growth above -1) and every two discount rates
\* 0 < w1 < w2 above the growth rate, the intrinsic value per share at w2 is
\* strictly smaller than at w1; within each growth column of the sensitivity
\* matrix the valid cells then strictly decrease along the WACC axis.
C6_DecreasingForPositiveFlows ==
    /\ (C6_HasGrid /\ C6_PositiveSeries) => C6_ColumnsDecrease(results.sensitivity)
    /\ (DcfReturned /\ C6_PositiveSeries) => C6_PairsDecrease

\* a returned valuation of a positive series with a column of two valid cells
C6_Witness ==
    /\ C6_HasGrid
    /\ C6_PositiveSeries
    /\ \E j \in 1..5 : results.sensitivity.matrix[1][j] # None
                       /\ results.sensitivity.matrix[5][j] # None

C7_OverlaysOff == ~assumptions.stress_supply_chain /\ ~assumptions.stress_carbon_tax

C8_PerShareGuard ==
    DcfCalled =>
        IF ret.status = "returned"
        THEN /\ RGt(company.shares_outstanding, Zero) =>
                    results.intrinsic_value_per_share =
                        RDiv(results.equity_value, company.shares_outstanding)
             /\ company.shares_outstanding = Zero =>
                    /\ results.intrinsic_value_per_share = Zero
                    /\ assumptions.stress_enabled =>
                           results.stress_test.stressed_intrinsic_value_per_share = Zero
        ELSE ret.step \in {"historical_metrics", "pv_fcf", "terminal_value"}

\* a returned valuation of a company without shares, stress enabled
C8_Witness ==
    /\ DcfReturned
    /\ company.shares_outstanding = Zero
    /\ results.equity_value # Zero
    /\ assumptions.stress_enabled

\* C9: the cost_of_equity and ke_after_esg calculate_wacc returns are at least
\* max(risk_free_rate, 0), with the tilt enabled or disabled and the ESG score
\* present or absent.  (Violated: the floor is applied inside the tilt only.)
C9_CostOfEquityFloor ==
    WaccCalled =>
        /\ RGe(ret.value.cost_of_equity, RMax(assumptions.risk_free_rate, Zero))
        /\ RGe(ret.value.ke_after_esg, RMax(assumptions.risk_free_rate, Zero))

\* the quantities claim C10 speaks of, read from the inputs
C10_Strength == RDiv(assumptions.esg_strength_bps, R(10000, 1))

C10_Active ==
    /\ assumptions.esg_adjustment_enabled
    /\ esg_data.total_esg # None
    /\ RGt(assumptions.esg_threshold_bad, assumptions.esg_threshold_good)

\* the adjustment claim C10 prescribes for a score when the tilt is active
C10_Prescribed(score) ==
    IF RLe(score, assumptions.esg_threshold_good) THEN RNeg(C10_Strength)
    ELSE IF RGe(score, assumptions.esg_threshold_bad) THEN C10_Strength
    ELSE RAdd(RNeg(C10_Strength),
              RDiv(RMul(RMul(R(2, 1), C10_Strength),
                        RSub(score, assumptions.esg_threshold_good)),
                   RSub(assumptions.esg_threshold_bad, assumptions.esg_threshold_good)))

\* the adjustment calculate_wacc has recorded
C10_Adjustment == calculation_details["esg_adjustment"].adjustment

\* C10: the tilt is active only if esg_adjustment_enabled, a score is present
\* and bad > good; when active (strength >= 0) the adjustment is -strength for
\* score <= good, +strength for score >= bad and the linear interpolation in
\* between, hence within [-strength, +strength] and non-decreasing in the
\* score; when inactive the adjustment is 0 and ke_after_esg = ke_before_esg
\* = risk_free_rate + beta * market_risk_premium.
C10_EsgTilt ==
    WaccCalled =>
        IF C10_Active
        THEN /\ C10_Adjustment = C10_Prescribed(esg_data.total_esg)
             /\ RGe(C10_Adjustment, RNeg(C10_Strength))
             /\ RLe(C10_Adjustment, C10_Strength)
             /\ \A higher \in AllEsgScores \ {None} :
                    RGe(higher, esg_data.total_esg) =>
                        RGe(esg_adjustment(assumptions, [total_esg |-> higher]), C10_Adjustment)
        ELSE /\ C10_Adjustment = Zero
             /\ ret.value.ke_after_esg = ret.value.ke_before_esg
             /\ ret.value.ke_before_esg =
                    RAdd(assumptions.risk_free_rate,
                         RMul(assumptions.beta, assumptions.market_risk_premium))

\* an active tilt with the score strictly between the thresholds
C10_Witness ==
    /\ WaccCalled
    /\ C10_Active
    /\ RGt(esg_data.total_esg, assumptions.esg_threshold_good)
    /\ RLt(esg_data.total_esg, assumptions.esg_threshold_bad)
    /\ C10_Adjustment # Zero

\* the growth rate claim C11 prescribes for year y (1-based)
C11_Growth(y) ==
    LET rates == assumptions.revenue_growth_rates
    IN  IF y <= Len(rates) THEN rates[y]
        ELSE IF Len(rates) > 0 THEN rates[Len(rates)]
        ELSE R(3, 100)

\* C11: project_cash_flows returns exactly forecast_years values, the first
\* baseline * (1 + g(1)) and each later one the previous value * (1 + g(y)),
\* g(y) being revenue_growth_rates[y-1], else the last rate, else 0.03; the
\* call keeps no state (baseline 80 with first rate 0.06 gives 84.8).
C11_Projection ==
    ret.op = "project_cash_flows" =>
        /\ ret.status = "returned"
        /\ Len(ret.value) = assumptions.forecast_years
        /\ \A y \in 1..Len(ret.value) :
               ret.value[y] = RMul(IF y = 1 THEN ret.base_fcf ELSE ret.value[y - 1],
                                   RAdd(One, C11_Growth(y)))
        /\ (ret.base_fcf = R(80, 1) /\ C11_Growth(1) = R(3, 50)) => ret.value[1] = R(424, 5)
        /\ calculation_details = EmptyDict
        /\ results = EmptyDict

\* a second call on the instance, with a horizon longer than the list of rates
C11_Witness ==
    /\ ret.op = "project_cash_flows"
    /\ ncalls = 2
    /\ ret.base_fcf = R(80, 1)
    /\ assumptions.revenue_growth_rates = <<R(3, 50), R(11, 200)>>
    /\ Len(ret.value) = 3

\* C12: with zero quarters of operating cash flow calculate_historical_metrics
\* raises nothing and returns ttm_operating_cf, ttm_capex, ttm_fcf,
\* ttm_net_income and avg_quarterly_fcf all 0, whatever the capex and
\* net_income lists hold; with 1 to 3 quarters the sums run over all quarters
\* and avg_quarterly_fcf = ttm_fcf / number of quarters.  (Violated: with no
\* operating cash flow the slices [-0:] sum the whole capex and net_income lists.)
C12_DegradedTtm ==
    HistCalled =>
        LET n == Len(historical.operating_cash_flow)
        IN  /\ n = 0 =>
                /\ ret.status = "returned"
                /\ ret.value.ttm_operating_cf = Zero
                /\ ret.value.ttm_capex = Zero
                /\ ret.value.ttm_fcf = Zero
                /\ ret.value.ttm_net_income = Zero
                /\ ret.value.avg_quarterly_fcf = Zero
            /\ (n \in 1..3 /\ Len(historical.capex) = n /\ Len(historical.net_income) = n) =>
                /\ ret.status = "returned"
                /\ ret.value.ttm_operating_cf = RSum(historical.operating_cash_flow)
                /\ ret.value.ttm_capex = RSum(historical.capex)
                /\ ret.value.ttm_fcf = RAdd(RSum(historical.operating_cash_flow),
                                            RSum(historical.capex))
                /\ ret.value.ttm_net_income = RSum(historical.net_income)
                /\ ret.value.avg_quarterly_fcf = RDiv(ret.value.ttm_fcf, R(n, 1))

StressCalled == ret.op = "apply_stress_scenarios"

\* C13: with stress_enabled false apply_stress_scenarios returns the base
\* series as the stressed series, an all-zero carbon-cost series and no notes,
\* whatever stress_supply_chain, stress_carbon_tax and the shock and carbon
\* parameters are.
C13_StressNoOp ==
    (StressCalled /\ ~assumptions.stress_enabled) =>
        /\ ret.value.stressed_fcf = ret.projected_fcf
        /\ Len(ret.value.carbon_costs) = Len(ret.projected_fcf)
        /\ \A i \in 1..Len(ret.value.carbon_costs) : ret.value.carbon_costs[i] = Zero
        /\ ret.value.notes = <<>>

\* stress disabled while both overlays are switched on, on a series of three years
C13_Witness ==
    /\ StressCalled
    /\ ~assumptions.stress_enabled
    /\ assumptions.stress_supply_chain
    /\ assumptions.stress_carbon_tax
    /\ Len(ret.projected_fcf) = 3

SensCalled == ret.op = "calculate_sensitivity_matrix"

SensGridReturned == SensCalled /\ DOMAIN ret.value # {}

\* the per-share value of one cell, written out from the series
C14_Value(fcf, wacc, growth) ==
    LET n  == Len(fcf)
        pv == RSum([y \in 1..n |-> RDiv(fcf[y], RPow(RAdd(One, wacc), y))])
        tv == RDiv(RDiv(RMul(fcf[n], RAdd(One, growth)), RSub(wacc, growth)),
                   RPow(RAdd(One, wacc), n))
    IN  RDiv(RAdd(RSub(RAdd(pv, tv), company.total_debt), company.cash),
             company.shares_outstanding)

C14_Invalid(wacc, growth) ==
    RLe(wacc, growth) \/ RLe(wacc, Zero) \/ RLe(company.shares_outstanding, Zero)

\* C14: in every grid returned by calculate_sensitivity_matrix the cell of
\* (wacc, growth) is None exactly when wacc <= growth or wacc <= 0 or
\* shares_outstanding <= 0; every other cell is (sum of fcf[y]/(1+wacc)^y
\* + fcf[last]*(1+growth)/(wacc-growth)/(1+wacc)^n - total_debt + cash)
\* / shares_outstanding with the cell's own growth, never the halved growth.
C14_CellValidity ==
    SensGridReturned =>
        \A i \in 1..5, j \in 1..5 :
            LET wacc   == ret.value.wacc_range[i]
                growth == ret.value.growth_range[j]
                cell   == ret.value.matrix[i][j]
            IN  /\ (cell = None) <=> C14_Invalid(wacc, growth)
                /\ cell # None => cell = C14_Value(ret.projected_fcf, wacc, growth)

\* a grid of a company with shares that has a cell with wacc < growth, a cell
\* with wacc = growth and a valued cell
C14_Witness ==
    /\ SensGridReturned
    /\ RGt(company.shares_outstanding, Zero)
    /\ \E i \in 1..5, j \in 1..5 : RLt(ret.value.wacc_range[i], ret.value.growth_range[j])
    /\ \E i \in 1..5, j \in 1..5 : ret.value.wacc_range[i] = ret.value.growth_range[j]
    /\ \E i \in 1..5, j \in 1..5 : ret.value.matrix[i][j] # None

C15_WaccFactors == <<R(3, 4), R(9, 10), One, R(11, 10), R(5, 4)>>

C15_GrowthSteps == <<R(-1, 100), R(-1, 200), Zero, R(1, 200), R(1, 100)>>

C15_Cells(grid) == { grid.matrix[i][j] : i \in 1..5, j \in 1..5 } \ {None}

\* the record is a grid with the two prescribed axes, 5 rows of 5 cells and
\* the minimum and maximum of the cells that are not None
C15_IsGrid(grid, base_wacc, base_growth) ==
    /\ DOMAIN grid # {}
    /\ grid.wacc_range = [i \in 1..5 |-> RMul(base_wacc, C15_WaccFactors[i])]
    /\ grid.growth_range = [j \in 1..5 |-> RAdd(base_growth, C15_GrowthSteps[j])]
    /\ Len(grid.matrix) = 5
    /\ \A i \in 1..5 : Len(grid.matrix[i]) = 5
    /\ IF C15_Cells(grid) = {}
       THEN grid.min_value = None /\ grid.max_value = None
       ELSE /\ grid.min_value \in C15_Cells(grid)
            /\ grid.max_value \in C15_Cells(grid)
            /\ \A v \in C15_Cells(grid) : RLe(grid.min_value, v) /\ RGe(grid.max_value, v)

C16_ResultImmutable ==
    \A i \in DOMAIN returned : result_now(i) = returned[i].result

\* C17: inputs are never mutated: over any sequence of calculate_dcf_valuation,
\* apply_stress_scenarios and calculate_sensitivity_matrix calls the company
\* record, the historical series, the assumptions record and the ESG profile
\* stay as they were passed in, and apply_stress_scenarios leaves the list it
\* was given unchanged, so that results.projected_fcf is still the projected
\* series and equals stress_test.base_projected_fcf when overlays are applied.
C17_InputsUnmutated ==
    /\ [](StressCalled => ret.projected_fcf_after = ret.projected_fcf)
    /\ [](DcfReturned =>
            /\ results.projected_fcf = results.stress_test.base_projected_fcf
            /\ results.projected_fcf =
                   project_cash_flows(assumptions, results.historical_metrics.ttm_fcf))
    /\ [][Inputs' = Inputs]_vars

\* a valuation whose overlays changed the stressed series
C17_Witness ==
    /\ DcfReturned
    /\ assumptions.stress_enabled
    /\ results.projected_fcf # <<>>
    /\ results.stress_test.stressed_projected_fcf # results.projected_fcf

\* C18: two valuation runs on separate DCFModel instances over the same input
\* records, their steps interleaved in every possible way: each run returns
\* exactly what calculate_dcf_valuation returns on an instance run alone, and
\* no step of one run writes the dict of the other run or the shared inputs.
C18_IndependentRuns ==
    /\ [](\A run \in DOMAIN runs :
            runs[run].pc = "done" =>
                Outcome(run) = calculate_dcf_valuation(company, historical, assumptions,
                                                       esg_data, EmptyDict))
    /\ [][\A q \in DOMAIN runs :
            runs'[q] = runs[q] => heap'[runs[q].details] = heap[runs[q].details]]_vars
    /\ [][Inputs' = Inputs]_vars

\* one run has returned a stressed valuation while the other run is between
\* its base terminal value and its stressed one
C18_Witness ==
    /\ DOMAIN runs # {}
    /\ runs[1].pc = "done"
    /\ runs[1].outcome.status = "returned"
    /\ runs[2].pc = "stress"
    /\ assumptions.stress_enabled
    /\ runs[1].outcome.value.stress_test.stressed_projected_fcf
           # runs[1].outcome.value.projected_fcf

\* C20: terminal value is never negative or infinite: for every final-year
\* FCF >= 0 and every WACC (WACC <= perpetual_growth_rate, WACC = 0 and
\* WACC < 0 included) calculate_terminal_value divides by a strictly positive
\* wacc - effective growth and returns a finite, non-negative terminal value.
C20_TerminalSafe ==
    (TerminalCalled /\ RGe(ret.final_fcf, Zero)) =>
        /\ ret.status = "returned"
        /\ RGt(RSub(ret.wacc, ret.growth_rate), Zero)
        /\ RGe(ret.value, Zero)

WalkthroughCalled == ret.op = "generate_calculation_walkthrough"

C21_Multiplier(i, n) ==
    IF assumptions.stress_supply_chain /\ i <= 2 /\ i <= n
    THEN RSub(RSub(One, assumptions.supply_chain_revenue_hit_pct),
              assumptions.supply_chain_cogs_increase_pct)
    ELSE One

\* c(i): the carbon cost of year i, from the base value
C21_CarbonCost(base, i) ==
    IF assumptions.stress_carbon_tax
    THEN RMul(RMul(base[i], assumptions.carbon_intensity), assumptions.carbon_tax_rate)
    ELSE Zero

\* C21: with stress_enabled true, for every year i of a base series of length
\* n, stressed[i] = base[i] * m(i) - c(i), where m(i) is 1 - revenue hit -
\* cogs increase for i <= min(2, n) when stress_supply_chain is on and 1
\* otherwise, and c(i) = base[i] * carbon_intensity * carbon_tax_rate when
\* stress_carbon_tax is on and 0 otherwise; carbon_costs[i] = c(i).
C21_StressedFormula ==
    (StressCalled /\ assumptions.stress_enabled) =>
        LET base == ret.projected_fcf
            n == Len(base)
        IN  /\ Len(ret.value.stressed_fcf) = n
            /\ Len(ret.value.carbon_costs) = n
            /\ \A i \in 1..n :
                 /\ ret.value.stressed_fcf[i] =
                        RSub(RMul(base[i], C21_Multiplier(i, n)), C21_CarbonCost(base, i))
                 /\ ret.value.carbon_costs[i] = C21_CarbonCost(base, i)

\* both overlays on a series of three years, with a shock and a carbon cost
\* that are not zero
C21_Witness ==
    /\ StressCalled
    /\ assumptions.stress_enabled
    /\ assumptions.stress_supply_chain
    /\ assumptions.stress_carbon_tax
    /\ Len(ret.projected_fcf) = 3
    /\ ret.value.carbon_costs[3] # Zero
    /\ ret.value.stressed_fcf[1] # RSub(ret.projected_fcf[1], ret.value.carbon_costs[1])

\* the two blocks of apply_stress_scenarios run in the other order: the carbon
\* cost is subtracted from the copy first, the supply-chain shock scales the
\* copy afterwards
C22_CarbonTaxFirst ==
    supply_chain_shock(assumptions,
                       carbon_tax(assumptions, ret.projected_fcf, ret.projected_fcf))

\* C22: no ordering dependency between the two stress scenarios: with both
\* overlays enabled the stressed series is the same whether the supply-chain
\* shock is applied before the carbon tax or the carbon tax before the shock.
C22_OrderIndependent ==
    (StressCalled /\ assumptions.stress_enabled /\ assumptions.stress_supply_chain
        /\ assumptions.stress_carbon_tax) =>
        ret.value.stressed_fcf = C22_CarbonTaxFirst


\* C23: after calculate_dcf_valuation returns with forecast_years >= 1, the
\* growth_rate recorded in calculation_details.terminal_value.components is
\* the rate results.terminal_value was computed with: wacc * 0.5 in the runs
\* where WACC <= perpetual_growth_rate and perpetual_growth_rate in the others,
\* with or without stress enabled.
C23_Recorded == calculation_details.terminal_value.components.growth_rate
C23_Wacc == results.wacc_results.wacc
C23_Final == results.projected_fcf[Len(results.projected_fcf)]
C23_GrowthRecorded ==
    (DcfReturned /\ assumptions.forecast_years >= 1) =>
        /\ C23_Recorded = IF RLe(C23_Wacc, assumptions.perpetual_growth_rate)
                          THEN RMul(C23_Wacc, R(1, 2))
                          ELSE assumptions.perpetual_growth_rate
        /\ results.terminal_value =
               RDiv(RMul(C23_Final, RAdd(One, C23_Recorded)), RSub(C23_Wacc, C23_Recorded))
C23_Witness ==
    /\ DcfReturned
    /\ assumptions.stress_enabled
    /\ RLe(C23_Wacc, assumptions.perpetual_growth_rate)
    /\ C23_Recorded = RMul(C23_Wacc, R(1, 2))
    /\ C23_Recorded # assumptions.perpetual_growth_rate
\* C23 as stated: the recorded rate differs from perpetual_growth_rate exactly
\* in the runs where WACC <= perpetual_growth_rate
C23_DiffersExactlyWhenSubstituted ==
    (DcfReturned /\ assumptions.forecast_years >= 1) =>
        ((C23_Recorded = RMul(C23_Wacc, R(1, 2))
              /\ C23_Recorded # assumptions.perpetual_growth_rate)
         <=> RLe(C23_Wacc, assumptions.perpetual_growth_rate))


\* C24: the irr of a returned valuation is 0 when the projected series is empty
\* or the market enterprise value is <= 0, 0 when sum(projected_fcf) +
\* terminal_value is negative with forecast_years > 1, and the real root
\* ((sum + terminal_value) / enterprise_value) ** (1 / forecast_years) - 1
\* otherwise; it is never a complex number.
C24_Radicand ==
    RDiv(RAdd(RSum(results.projected_fcf), results.terminal_value),
         results.wacc_results.enterprise_value)
C24_IrrGuards ==
    DcfReturned =>
        IF results.projected_fcf = <<>> \/ RLe(results.wacc_results.enterprise_value, Zero)
        THEN results.irr.kind = "zero"
        ELSE IF RLt(C24_Radicand, Zero) /\ Len(results.projected_fcf) > 1
        THEN results.irr.kind = "zero"
        ELSE /\ results.irr.kind = "real"
             /\ results.irr.radicand = C24_Radicand
             /\ results.irr.degree = Len(results.projected_fcf)


\* C27: after calculate_dcf_valuation returns with forecast_years >= 1, the
\* terminal-value trace in calculation_details describes the base valuation:
\* components.final_fcf is the last entry of results.projected_fcf and
\* components.terminal_value is results.terminal_value, whatever the stress flags.
C27_TraceDescribesBase ==
    (DcfReturned /\ assumptions.forecast_years >= 1) =>
        /\ calculation_details.terminal_value.components.final_fcf =
               results.projected_fcf[Len(results.projected_fcf)]
        /\ calculation_details.terminal_value.components.terminal_value =
               results.terminal_value


\* C28: in one calculate_dcf_valuation result with a non-empty projection, the
\* centre cell of the sensitivity grid (matrix[2][2], counted from 0) equals
\* intrinsic_value_per_share when WACC > perpetual_growth_rate, WACC > 0 and
\* shares_outstanding > 0; when 0 < WACC <= perpetual_growth_rate the centre
\* cell is None while intrinsic_value_per_share is the number computed with
\* growth WACC * 0.5.
C28_Centre == results.sensitivity.matrix[3][3]
C28_PerShare(growth) ==
    LET fcf == results.projected_fcf
        n == Len(fcf)
        tv == RDiv(RMul(fcf[n], RAdd(One, growth)), RSub(C23_Wacc, growth))
        ev == RAdd(RSum(present_values(fcf, C23_Wacc)), discount(tv, C23_Wacc, n))
        equity == RAdd(RSub(ev, company.total_debt), company.cash)
    IN  IF RGt(company.shares_outstanding, Zero)
        THEN RDiv(equity, company.shares_outstanding) ELSE Zero
C28_CentreCell ==
    (DcfReturned /\ results.projected_fcf # <<>> /\ RGt(C23_Wacc, Zero)) =>
        /\ (RGt(C23_Wacc, assumptions.perpetual_growth_rate)
              /\ RGt(company.shares_outstanding, Zero))
           => /\ C28_Centre # None
              /\ C28_Centre = results.intrinsic_value_per_share
        /\ RLe(C23_Wacc, assumptions.perpetual_growth_rate)
           => /\ C28_Centre = None
              /\ results.intrinsic_value_per_share # None
              /\ results.intrinsic_value_per_share = C28_PerShare(RMul(C23_Wacc, R(1, 2)))
C28_Witness ==
    /\ DcfReturned
    /\ RGt(C23_Wacc, Zero)
    /\ RLe(C23_Wacc, assumptions.perpetual_growth_rate)
    /\ RGt(company.shares_outstanding, Zero)
    /\ C28_Centre = None
    /\ results.intrinsic_value_per_share = C28_PerShare(RMul(C23_Wacc, R(1, 2)))
    /\ results.intrinsic_value_per_share # Zero
    /\ \E i \in 1..5 : results.sensitivity.matrix[i][1] # None
C28_WitnessEqual ==
    /\ DcfReturned
    /\ RGt(C23_Wacc, assumptions.perpetual_growth_rate)
    /\ assumptions.stress_enabled
    /\ C28_Centre # None
    /\ C28_Centre = results.intrinsic_value_per_share


\* C25: the expiry protocol of one wrapped call.  When the lookup finds an
\* entry younger than expire_minutes the call returns the stored result, func is
\* not invoked and the entry stays as it was; when the entry has age >=
\* expire_minutes, or there is no entry, func is invoked exactly once and its
\* result is stored under the key with a timestamp taken during the call; when
\* func raises, nothing is stored under the key.
C25_Last == threads[1].last
C25_Returned == Running(1, "idle") /\ C25_Last # None /\ C25_Last.status # "cleared"
C25_Hit == C25_Last.found # None /\ C25_Last.age_minutes < expire_minutes
C25_Stored(k) ==
    /\ HasKey(cache, k) /\ HasKey(cache_timestamps, k)
    /\ cache[k] = C25_Last.value
    /\ cache_timestamps[k] <= C25_Last.at
    /\ C25_Last.found # None => cache_timestamps[k] >= C25_Last.found.stamp + expire_minutes
C25_ExpiryProtocol ==
    C25_Returned =>
        LET k == C25_Last.cache_key
        IN  IF C25_Hit
            THEN /\ C25_Last.status = "returned"
                 /\ C25_Last.value = C25_Last.found.stored
                 /\ C25_Last.invoked = 0
                 /\ cache[k] = C25_Last.found.stored
                 /\ cache_timestamps[k] = C25_Last.found.stamp
            ELSE /\ C25_Last.invoked = 1
                 /\ C25_Last.status = IF C25_Last.raises THEN "Exception" ELSE "returned"
                 /\ C25_Last.found # None => C25_Last.value # C25_Last.found.stored
                 /\ IF C25_Last.raises
                    THEN ~HasKey(cache, k) /\ ~HasKey(cache_timestamps, k)
                    ELSE C25_Stored(k)
C25_Witness ==
    /\ C25_Returned
    /\ C25_Last.found # None
    /\ C25_Last.age_minutes = expire_minutes
    /\ C25_Last.status = "returned"
    /\ C25_Last.invoked = 1
    /\ C25_Stored(C25_Last.cache_key)
    /\ DOMAIN cache = WrappedCalls
C25_WitnessHit == C25_Returned /\ C25_Hit /\ C25_Last.age_minutes = 1 /\ C25_Last.invoked = 0
C25_WitnessRaise ==
    /\ C25_Returned /\ C25_Last.found # None /\ C25_Last.status = "Exception"
    /\ ~HasKey(cache, C25_Last.cache_key)

\* C29: once every call has returned, _CACHE and _CACHE_TIMESTAMPS hold the
\* same keys, whatever the interleaving of the calls was.
C29_AllReturned == \A t \in DOMAIN threads : threads[t].pc = "idle"
C29_SameKeys == C29_AllReturned => DOMAIN cache = DOMAIN cache_timestamps

\* C30: under every interleaving no call of the wrapper ends in a KeyError, and
\* a call that returns hands back the stored result or the result of its own
\* invocation of func.
C30_NoKeyError ==
    \A t \in DOMAIN threads :
        (threads[t].pc = "idle" /\ threads[t].last # None) =>
            /\ threads[t].last.status # "KeyError"
            /\ threads[t].last.status = "returned" =>
                  \/ threads[t].last.invoked = 1
                  \/ threads[t].last.value = threads[t].last.found.stored


\* C26: fetch_esg_data calls its sources in the order Financial Modeling Prep,
\* Yahoo Finance, news estimate, sector baseline; it returns the record of the
\* first source that yields one and calls no later source; it raises nothing
\* when any or all of the first three sources fail; the record's total_esg is a
\* number within 0..100.
C26_Order == <<"fmp", "yahoo", "news", "baseline">>
C26_Sources ==
    << "Financial Modeling Prep", "Yahoo Finance (yfinance)", "News-based estimate",
       "Sector baseline" >>
C26_Yields(i) ==
    CASE i = 1 -> ret.world.fmp.kind = "data" /\ parse_esg_score(ret.world.fmp.ESGScore) # None
      [] i = 2 -> ret.world.yahoo.kind = "data"
                    /\ parse_esg_score(ret.world.yahoo.totalEsg) # None
      [] i = 3 -> ret.world.news.kind = "articles"
      [] i = 4 -> TRUE
C26_WitnessClamped ==
    /\ ret.op = "fetch_esg_data"
    /\ ret.world.fmp.kind = "data" /\ ret.world.fmp.ESGScore = [text |-> "150"]
    /\ ret.consulted = <<"fmp">>
    /\ ret.value.total_esg = R(100, 1)

====
